---- MODULE Spec2Model ----
(***************************************************************************)
(* Model of the vote tally state machine of sunshine-bounty:               *)
(* pallets-util/src/vote.rs (Vote, ThresholdConfig, VoteState,             *)
(* VoteOutcome, Apply, Revert, Approved, Rejected), and of the bank's      *)
(* spend proposals, which are decided by such a vote.                      *)
(*                                                                         *)
(* A single VoteState value `vs` is constructed (Init) and then driven by  *)
(* apply, revert and the two topic updates.  The other variables are       *)
(* history variables: they record what was done to `vs`, and no operator   *)
(* of the program reads them.                                              *)
(***************************************************************************)
EXTENDS Integers, Sequences, FiniteSets, Bags, TLC

(***************************************************************************)
(* Bounds of the model.                                                    *)
(***************************************************************************)
\* largest value a tally may take in Spec (the cap on the Signal counters)
MaxSignal == 3
\* vote magnitudes are drawn from 1..MaxMagnitude
MaxMagnitude == 2
\* number of votes that may be cast and not yet retracted (SpecBallots)
MaxVotes == 2
\* thresholds handed to ThresholdConfig::new are drawn from 0..MaxThreshold
MaxThreshold == 1
\* number of reverts of a vote that is not active (SpecStray)
MaxStrayReverts == 1

(***************************************************************************)
(* Option<T>: None is the empty sequence, Some(x) the one-element one.     *)
(***************************************************************************)
None == <<>>
Some(x) == <<x>>
IsSome(o) == o # None
Unwrap(o) == o[1]

Signal == 0..MaxSignal
Magnitudes == 1..MaxMagnitude
Hashes == {"h0", "h1"}
OptionHash == {None} \cup {Some(h) : h \in Hashes}

\* vote.rs:12-21  enum VoterView
VoterView == {"NoVote", "InFavor", "Against", "Abstain"}

\* vote.rs:431-440  enum VoteOutcome
VoteOutcome == {"NotStarted", "Voting", "Approved", "Rejected"}

\* vote.rs:442-446  impl Default for VoteOutcome
VoteOutcome_default == "NotStarted"

\* vote.rs:26-30  struct Vote (the derived constructor Vote::new)
Vote_new(magnitude, direction, justification) ==
    [magnitude |-> magnitude, direction |-> direction, justification |-> justification]

\* mutant: a new justification alone also counts as a new view
set_new_view_on_any_change(self, new_direction, new_justification) ==
    IF self.direction = new_direction /\ self.justification = new_justification
    THEN None
    ELSE Some([magnitude |-> self.magnitude,
               direction |-> new_direction,
               justification |-> new_justification])

\* vote.rs:33-48  Vote::set_new_view -> Option<Self>
set_new_view(self, new_direction, new_justification) ==
    IF self.direction = new_direction
    THEN None
    ELSE Some([magnitude |-> self.magnitude,
               direction |-> new_direction,
               justification |-> new_justification])

(***************************************************************************)
(* ThresholdConfig                                                         *)
(***************************************************************************)
\* mutant: a support equal to the turnout requirement is accepted
ThresholdConfig_new_allowing_equal(support_required, turnout_required) ==
    IF IsSome(turnout_required)
    THEN IF support_required <= Unwrap(turnout_required)
         THEN Some([support_required |-> support_required,
                    turnout_required |-> turnout_required])
         ELSE None
    ELSE Some([support_required |-> support_required, turnout_required |-> None])

\* vote.rs:74-90  ThresholdConfig::new -> Option<Self>
ThresholdConfig_new(support_required, turnout_required) ==
    IF IsSome(turnout_required)
    THEN IF support_required < Unwrap(turnout_required)
         THEN Some([support_required |-> support_required,
                    turnout_required |-> turnout_required])
         ELSE None
    ELSE Some([support_required |-> support_required, turnout_required |-> None])

\* vote.rs:91-93
support_threshold(config) == config.support_required

\* vote.rs:94-96
turnout_threshold(config) == config.turnout_required

\* vote.rs:97-102
new_support_threshold(support_required) ==
    [support_required |-> support_required, turnout_required |-> None]

\* vote.rs:63  #[derive(Default)] for ThresholdConfig
ThresholdConfig_default == [support_required |-> 0, turnout_required |-> None]

(***************************************************************************)
(* VoteState: constructors                                                 *)
(***************************************************************************)
\* vote.rs:140-153  impl Default for VoteState
VoteState_default ==
    [topic |-> None,
     in_favor |-> 0,
     against |-> 0,
     turnout |-> 0,
     all_possible_turnout |-> 0,
     passage_threshold |-> ThresholdConfig_default,
     rejection_threshold |-> None,
     initialized |-> 0,
     expires |-> None,
     outcome |-> VoteOutcome_default]

\* vote.rs:167-185  VoteState::new
VoteState_new(topic, all_possible_turnout, passage_threshold, rejection_threshold, initialized, expires) ==
    [VoteState_default EXCEPT
        !.topic = topic,
        !.all_possible_turnout = all_possible_turnout,
        !.passage_threshold = passage_threshold,
        !.rejection_threshold = rejection_threshold,
        !.initialized = initialized,
        !.expires = expires,
        !.outcome = "Voting"]

\* mutant: the passage threshold is left at its default
new_unanimous_consent_with_default_threshold(topic, all_possible_turnout, initialized, expires) ==
    [VoteState_default EXCEPT
        !.topic = topic,
        !.all_possible_turnout = all_possible_turnout,
        !.initialized = initialized,
        !.expires = expires,
        !.outcome = "Voting"]

\* mutant: half of the possible turnout is the support to exceed
new_unanimous_consent_by_majority(topic, all_possible_turnout, initialized, expires) ==
    LET unanimous_passage_threshold == new_support_threshold(all_possible_turnout \div 2)
    IN  [VoteState_default EXCEPT
            !.topic = topic,
            !.all_possible_turnout = all_possible_turnout,
            !.passage_threshold = unanimous_passage_threshold,
            !.rejection_threshold = None,
            !.initialized = initialized,
            !.expires = expires,
            !.outcome = "Voting"]

\* vote.rs:186-204  VoteState::new_unanimous_consent
new_unanimous_consent(topic, all_possible_turnout, initialized, expires) ==
    LET unanimous_passage_threshold == new_support_threshold(all_possible_turnout)
    IN  [VoteState_default EXCEPT
            !.topic = topic,
            !.all_possible_turnout = all_possible_turnout,
            !.passage_threshold = unanimous_passage_threshold,
            !.rejection_threshold = None,
            !.initialized = initialized,
            !.expires = expires,
            !.outcome = "Voting"]

(***************************************************************************)
(* Signal arithmetic.  Signal is a fixed-width unsigned integer (u64 in    *)
(* the runtimes of bank/src/tests.rs:101 and court/src/tests.rs:104); the  *)
(* model scales its range down to 0..MaxSignal.  `+` and `-` are the plain *)
(* operators of the type: with overflow checks off they wrap.  The actions *)
(* of Spec keep every sum and difference inside 0..MaxSignal.              *)
(***************************************************************************)
SignalModulus == MaxSignal + 1

\* vote.rs:134  Signal: sp_std::ops::Add<Output = Signal>
SignalAdd(a, b) == (a + b) % SignalModulus

\* vote.rs:135  Signal: sp_std::ops::Sub<Output = Signal>
SignalSub(a, b) == (a - b) % SignalModulus

(***************************************************************************)
(* VoteState: tally updates                                                *)
(***************************************************************************)
\* mutant: the vote in favor is not counted in the turnout
add_in_favor_vote_without_turnout(self, magnitude) ==
    [self EXCEPT !.in_favor = SignalAdd(self.in_favor, magnitude)]

\* vote.rs:232-240
add_in_favor_vote(self, magnitude) ==
    LET new_turnout == SignalAdd(self.turnout, magnitude)
        new_in_favor == SignalAdd(self.in_favor, magnitude)
    IN  [self EXCEPT !.in_favor = new_in_favor, !.turnout = new_turnout]

\* mutant: the against vote is not counted in the turnout
add_against_vote_without_turnout(self, magnitude) ==
    [self EXCEPT !.against = SignalAdd(self.against, magnitude)]

\* vote.rs:241-249
add_against_vote(self, magnitude) ==
    LET new_turnout == SignalAdd(self.turnout, magnitude)
        new_against == SignalAdd(self.against, magnitude)
    IN  [self EXCEPT !.against = new_against, !.turnout = new_turnout]

\* mutant: an abstention is tallied as a vote against
add_abstention_as_against(self, magnitude) ==
    [self EXCEPT !.against = SignalAdd(self.against, magnitude),
                 !.turnout = SignalAdd(self.turnout, magnitude)]

\* vote.rs:250-256
add_abstention(self, magnitude) ==
    LET new_turnout == SignalAdd(self.turnout, magnitude)
    IN  [self EXCEPT !.turnout = new_turnout]

\* mutant: the in-favor tally is left as it was
remove_in_favor_vote_turnout_only(self, magnitude) ==
    [self EXCEPT !.turnout = SignalSub(self.turnout, magnitude)]

\* vote.rs:257-265
remove_in_favor_vote(self, magnitude) ==
    LET new_turnout == SignalSub(self.turnout, magnitude)
        new_in_favor == SignalSub(self.in_favor, magnitude)
    IN  [self EXCEPT !.in_favor = new_in_favor, !.turnout = new_turnout]

\* mutant: the turnout is left as it was
remove_against_vote_without_turnout(self, magnitude) ==
    [self EXCEPT !.against = SignalSub(self.against, magnitude)]

\* vote.rs:266-274
remove_against_vote(self, magnitude) ==
    LET new_turnout == SignalSub(self.turnout, magnitude)
        new_against == SignalSub(self.against, magnitude)
    IN  [self EXCEPT !.against = new_against, !.turnout = new_turnout]

\* mutant: reverting an abstention leaves the turnout as it was
remove_abstention_keeping_turnout(self, magnitude) == self

\* vote.rs:275-281
remove_abstention(self, magnitude) ==
    LET new_turnout == SignalSub(self.turnout, magnitude)
    IN  [self EXCEPT !.turnout = new_turnout]

\* mutant: clearing the tallies also reopens the vote
update_topic_and_reopen(self, new_topic) ==
    [self EXCEPT !.in_favor = 0, !.against = 0, !.turnout = 0,
                 !.topic = Some(new_topic), !.outcome = "Voting"]

\* mutant: the turnout is not cleared with the other tallies
update_topic_keeping_turnout(self, new_topic) ==
    [self EXCEPT !.in_favor = 0, !.against = 0, !.topic = Some(new_topic)]

\* vote.rs:282-290
update_topic_and_clear_state(self, new_topic) ==
    [self EXCEPT !.in_favor = 0, !.against = 0, !.turnout = 0,
                 !.topic = Some(new_topic)]

\* mutant: the new topic starts without an expiry
update_topic_dropping_expiry(self, new_topic) ==
    [self EXCEPT !.topic = Some(new_topic), !.expires = None]

\* vote.rs:291-296
update_topic_without_clearing_state(self, new_topic) ==
    [self EXCEPT !.topic = Some(new_topic)]

\* vote.rs:298-303
set_outcome(self, new_outcome) == [self EXCEPT !.outcome = new_outcome]

(***************************************************************************)
(* Threshold evaluation                                                    *)
(***************************************************************************)
\* mutant: support equal to the threshold is enough
approved_at_threshold(self) ==
    /\ self.in_favor >= support_threshold(self.passage_threshold)
    /\ IF IsSome(turnout_threshold(self.passage_threshold))
       THEN Unwrap(turnout_threshold(self.passage_threshold)) > self.turnout
       ELSE TRUE

\* mutant: the turnout requirement is read as a floor
approved_turnout_floor(self) ==
    /\ self.in_favor > support_threshold(self.passage_threshold)
    /\ IF IsSome(turnout_threshold(self.passage_threshold))
       THEN Unwrap(turnout_threshold(self.passage_threshold)) <= self.turnout
       ELSE TRUE

\* vote.rs:318-325  Approved::approved
approved(self) ==
    /\ self.in_favor > support_threshold(self.passage_threshold)
    /\ IF IsSome(turnout_threshold(self.passage_threshold))
       THEN Unwrap(turnout_threshold(self.passage_threshold)) > self.turnout
       ELSE TRUE

\* mutant: without a rejection threshold the answer is Some(false)
rejected_never_none(self) ==
    IF IsSome(self.rejection_threshold)
    THEN LET rejection_threshold_set == Unwrap(self.rejection_threshold)
         IN  Some(/\ self.against > support_threshold(rejection_threshold_set)
                  /\ IF IsSome(turnout_threshold(rejection_threshold_set))
                     THEN Unwrap(turnout_threshold(rejection_threshold_set)) > self.turnout
                     ELSE TRUE)
    ELSE Some(FALSE)

\* mutant: without a rejection threshold a majority against rejects
rejected_by_majority_without_threshold(self) ==
    IF IsSome(self.rejection_threshold)
    THEN LET rejection_threshold_set == Unwrap(self.rejection_threshold)
         IN  Some(/\ self.against > support_threshold(rejection_threshold_set)
                  /\ IF IsSome(turnout_threshold(rejection_threshold_set))
                     THEN Unwrap(turnout_threshold(rejection_threshold_set)) > self.turnout
                     ELSE TRUE)
    ELSE Some(self.against > self.in_favor)

\* vote.rs:340-355  Rejected::rejected -> Option<bool>
rejected(self) ==
    IF IsSome(self.rejection_threshold)
    THEN LET rejection_threshold_set == Unwrap(self.rejection_threshold)
         IN  Some(/\ self.against > support_threshold(rejection_threshold_set)
                  /\ IF IsSome(turnout_threshold(rejection_threshold_set))
                     THEN Unwrap(turnout_threshold(rejection_threshold_set)) > self.turnout
                     ELSE TRUE)
    ELSE None

(***************************************************************************)
(* Apply / Revert                                                          *)
(***************************************************************************)
\* mutant: rejection is tested before approval
apply_rejection_first(self, vote) ==
    LET new_vote_state ==
            CASE vote.direction = "InFavor" -> add_in_favor_vote(self, vote.magnitude)
              [] vote.direction = "Against" -> add_against_vote(self, vote.magnitude)
              [] vote.direction = "Abstain" -> add_abstention(self, vote.magnitude)
              [] OTHER -> self
    IN  IF rejected(new_vote_state) = Some(TRUE)
        THEN set_outcome(new_vote_state, "Rejected")
        ELSE IF approved(new_vote_state)
             THEN set_outcome(new_vote_state, "Approved")
             ELSE new_vote_state

\* mutant: a NoVote ballot is counted as an abstention
apply_counting_no_vote(self, vote) ==
    LET new_vote_state ==
            CASE vote.direction = "InFavor" -> add_in_favor_vote(self, vote.magnitude)
              [] vote.direction = "Against" -> add_against_vote(self, vote.magnitude)
              [] OTHER -> add_abstention(self, vote.magnitude)
    IN  IF approved(new_vote_state)
        THEN set_outcome(new_vote_state, "Approved")
        ELSE IF rejected(new_vote_state) = Some(TRUE)
             THEN set_outcome(new_vote_state, "Rejected")
             ELSE new_vote_state

\* mutant: the first vote on a state that was not started starts the vote
apply_starting_the_vote(self, vote) ==
    LET new_vote_state ==
            CASE vote.direction = "InFavor" -> add_in_favor_vote(self, vote.magnitude)
              [] vote.direction = "Against" -> add_against_vote(self, vote.magnitude)
              [] vote.direction = "Abstain" -> add_abstention(self, vote.magnitude)
              [] OTHER -> self
    IN  IF approved(new_vote_state)
        THEN set_outcome(new_vote_state, "Approved")
        ELSE IF rejected(new_vote_state) = Some(TRUE)
             THEN set_outcome(new_vote_state, "Rejected")
             ELSE set_outcome(new_vote_state, "Voting")

\* vote.rs:370-390  Apply::apply
apply(self, vote) ==
    LET new_vote_state ==
            CASE vote.direction = "InFavor" -> add_in_favor_vote(self, vote.magnitude)
              [] vote.direction = "Against" -> add_against_vote(self, vote.magnitude)
              [] vote.direction = "Abstain" -> add_abstention(self, vote.magnitude)
              [] OTHER -> self
        rejected_ == IF IsSome(rejected(new_vote_state))
                     THEN Unwrap(rejected(new_vote_state))
                     ELSE FALSE
    IN  IF approved(new_vote_state)
        THEN set_outcome(new_vote_state, "Approved")
        ELSE IF rejected_
             THEN set_outcome(new_vote_state, "Rejected")
             ELSE new_vote_state

\* mutant: a state that meets neither threshold goes back to Voting
revert_reopening(self, vote) ==
    LET new_vote_state ==
            CASE vote.direction = "InFavor" -> remove_in_favor_vote(self, vote.magnitude)
              [] vote.direction = "Against" -> remove_against_vote(self, vote.magnitude)
              [] vote.direction = "Abstain" -> remove_abstention(self, vote.magnitude)
              [] OTHER -> self
    IN  IF approved(new_vote_state)
        THEN set_outcome(new_vote_state, "Approved")
        ELSE IF rejected(new_vote_state) = Some(TRUE)
             THEN set_outcome(new_vote_state, "Rejected")
             ELSE set_outcome(new_vote_state, "Voting")

\* vote.rs:405-425  Revert::revert
revert(self, vote) ==
    LET new_vote_state ==
            CASE vote.direction = "InFavor" -> remove_in_favor_vote(self, vote.magnitude)
              [] vote.direction = "Against" -> remove_against_vote(self, vote.magnitude)
              [] vote.direction = "Abstain" -> remove_abstention(self, vote.magnitude)
              [] OTHER -> self
        rejected_ == IF IsSome(rejected(new_vote_state))
                     THEN Unwrap(rejected(new_vote_state))
                     ELSE FALSE
    IN  IF approved(new_vote_state)
        THEN set_outcome(new_vote_state, "Approved")
        ELSE IF rejected_
             THEN set_outcome(new_vote_state, "Rejected")
             ELSE new_vote_state

(***************************************************************************)
(* The bank: one organization, its bank account and the first spend        *)
(* proposal of that account, in the runtime of pallets/bank/src/tests.rs.  *)
(* A call returns the bank as it leaves it, with the name of the call and  *)
(* its result; a call that fails changes nothing else.                     *)
(***************************************************************************)
\* bank/src/tests.rs:110  MinDeposit
MinDeposit == 20

\* bank/src/tests.rs:147  the balances of the bank's opener (1) and of the
\* recipient of the spend (3)
GenesisBalances == (1 :> 100) @@ (3 :> 200)

\* bank/src/tests.rs:152  first_organization_supervisor
Supervisor == 1

NoProposal == [state |-> "None", amount |-> 0, dest |-> 0]

BankGenesis ==
    [opened |-> FALSE,
     funds |-> 0,
     free |-> GenesisBalances,
     proposal |-> NoProposal,
     transfers |-> 0,
     called |-> "none",
     result |-> "none"]

Returned(b, fn, result) == [b EXCEPT !.called = fn, !.result = result]

\* a proposal that was executed or discarded
IsClosed(proposal) == proposal.state \in {"ApprovedAndExecuted", "Rejected"}

open_org_bank_account(b, caller, deposit) ==
    IF caller # Supervisor
    THEN Returned(b, "open_org_bank_account", "NotPermittedToOpenBankAccountForOrg")
    ELSE IF deposit < MinDeposit
         THEN Returned(b, "open_org_bank_account",
                       "CannotOpenBankAccountIfDepositIsBelowModuleMinimum")
         ELSE Returned([b EXCEPT !.opened = TRUE,
                                 !.funds = deposit,
                                 !.free[caller] = @ - deposit],
                       "open_org_bank_account", "Ok")

propose_spend(b, bank_id, amount, dest) ==
    IF ~b.opened \/ bank_id # 1
    THEN Returned(b, "propose_spend", "BankMustExistToProposeSpendFrom")
    ELSE Returned([b EXCEPT !.proposal = [state |-> "WaitingForApproval",
                                          amount |-> amount,
                                          dest |-> dest]],
                  "propose_spend", "Ok")

trigger_vote_on_spend_proposal(b) ==
    IF b.proposal.state = "WaitingForApproval"
    THEN Returned([b EXCEPT !.proposal.state = "Voting"],
                  "trigger_vote_on_spend_proposal", "Ok")
    ELSE Returned(b, "trigger_vote_on_spend_proposal", "StateError")

\* the effect of an approved spend: the bank account pays the recipient
execute_spend(b) ==
    [b EXCEPT !.funds = @ - b.proposal.amount,
              !.free[b.proposal.dest] = @ + b.proposal.amount,
              !.proposal.state = "ApprovedAndExecuted",
              !.transfers = @ + 1]

\* mutant: an approved proposal is executed and left in the Voting state
poll_spend_proposal_without_closing(b, outcome) ==
    IF b.proposal.state # "Voting"
    THEN Returned(b, "poll_spend_proposal", "StateError")
    ELSE CASE outcome = "Approved" ->
                Returned([execute_spend(b) EXCEPT !.proposal.state = "Voting"],
                         "poll_spend_proposal", "Ok")
           [] outcome = "Rejected" ->
                Returned([b EXCEPT !.proposal.state = "Rejected"],
                         "poll_spend_proposal", "Ok")
           [] OTHER -> Returned(b, "poll_spend_proposal", "Inconclusive")

\* outcome is the outcome of the VoteState of the proposal's vote
poll_spend_proposal(b, outcome) ==
    IF b.proposal.state # "Voting"
    THEN Returned(b, "poll_spend_proposal", "StateError")
    ELSE CASE outcome = "Approved" ->
                Returned(execute_spend(b), "poll_spend_proposal", "Ok")
           [] outcome = "Rejected" ->
                Returned([b EXCEPT !.proposal.state = "Rejected"],
                         "poll_spend_proposal", "Ok")
           [] OTHER -> Returned(b, "poll_spend_proposal", "Inconclusive")

\* mutant: the sudo approval pays and leaves the proposal open
sudo_approve_without_closing(b) ==
    IF b.proposal.state \in {"WaitingForApproval", "Voting"}
    THEN Returned([execute_spend(b) EXCEPT !.proposal.state = b.proposal.state],
                  "sudo_approve_spend_proposal", "Ok")
    ELSE Returned(b, "sudo_approve_spend_proposal", "StateError")

sudo_approve_spend_proposal(b) ==
    IF b.proposal.state \in {"WaitingForApproval", "Voting"}
    THEN Returned(execute_spend(b), "sudo_approve_spend_proposal", "Ok")
    ELSE Returned(b, "sudo_approve_spend_proposal", "StateError")

(***************************************************************************)
(* The court: the first dispute registered in the runtime of               *)
(* pallets/court/src/tests.rs, the funds locked for it and its vote.  As   *)
(* for the bank, a call returns the court as it leaves it, with the name   *)
(* of the call, its arguments and its result.                              *)
(***************************************************************************)
\* court/src/tests.rs:107  MinimumDisputeAmount
MinimumDisputeAmount == 10

\* court/src/tests.rs:141  the balances of the locker (1) and of the account
\* allowed to raise the dispute (2)
CourtBalances == (1 :> 100) @@ (2 :> 98)

NoDispute == [state |-> "None", locker |-> 0, amount |-> 0, raiser |-> 0]

CourtGenesis ==
    [dispute |-> NoDispute,
     free |-> CourtBalances,
     reserved |-> 0,
     vote |-> VoteState_default,
     votes |-> 0,
     inconclusive |-> FALSE,
     called |-> "none",
     args |-> <<>>,
     result |-> "none"]

CourtReturned(c, fn, args, result) == [c EXCEPT !.called = fn, !.args = args, !.result = result]

\* mutant: the dispute is stored before the amount is checked
register_dispute_storing_before_check(c, locker, amount, dispute_raiser) ==
    LET fn == "register_dispute_type_with_resolution_path"
        args == <<locker, amount, dispute_raiser>>
        stored == [c EXCEPT !.dispute = [state |-> "DisputeNotRaised",
                                         locker |-> locker,
                                         amount |-> amount,
                                         raiser |-> dispute_raiser]]
    IN  IF amount < MinimumDisputeAmount
        THEN CourtReturned(stored, fn, args, "DisputeMustExceedModuleMinimum")
        ELSE IF amount > c.free[locker]
             THEN CourtReturned(stored, fn, args, "InsufficientBalance")
             ELSE CourtReturned([stored EXCEPT !.free[locker] = @ - amount,
                                               !.reserved = amount],
                                fn, args, "Ok")

register_dispute_type_with_resolution_path(c, locker, amount, dispute_raiser) ==
    LET fn == "register_dispute_type_with_resolution_path"
        args == <<locker, amount, dispute_raiser>>
    IN  IF amount < MinimumDisputeAmount
        THEN CourtReturned(c, fn, args, "DisputeMustExceedModuleMinimum")
        ELSE IF amount > c.free[locker]
             THEN CourtReturned(c, fn, args, "InsufficientBalance")
             ELSE CourtReturned([c EXCEPT !.free[locker] = @ - amount,
                                          !.reserved = amount,
                                          !.dispute = [state |-> "DisputeNotRaised",
                                                       locker |-> locker,
                                                       amount |-> amount,
                                                       raiser |-> dispute_raiser]],
                                fn, args, "Ok")

\* new_vote is the VoteState opened for the dispute when the call succeeds
raise_dispute_to_trigger_vote(c, signer, dispute_id, new_vote) ==
    LET fn == "raise_dispute_to_trigger_vote"
        args == <<signer, dispute_id>>
    IN  IF c.dispute.state = "None" \/ dispute_id # 1
        THEN CourtReturned(c, fn, args, "CannotRaiseDisputeIfDisputeStateDNE")
        ELSE IF signer # c.dispute.raiser
             THEN CourtReturned(c, fn, args, "SignerNotAuthorizedToRaiseThisDispute")
             ELSE IF c.dispute.state # "DisputeNotRaised"
                  THEN CourtReturned(c, fn, args, "StateError")
                  ELSE CourtReturned([c EXCEPT !.dispute.state =
                                                    "DisputeRaisedAndVoteDispatched",
                                               !.vote = new_vote],
                                     fn, args, "Ok")

\* mutant: a poll of a dispute that was not raised reads the outcome of its vote
poll_dispute_in_any_state(c, signer, dispute_id) ==
    LET fn == "poll_dispute_to_execute_outcome"
        args == <<signer, dispute_id>>
    IN  IF c.dispute.state \notin {"DisputeNotRaised", "DisputeRaisedAndVoteDispatched"}
        THEN CourtReturned(c, fn, args, "ActiveDisputeCannotBePolledFromCurrentState")
        ELSE CASE c.vote.outcome = "Approved" ->
                    CourtReturned([c EXCEPT !.free[c.dispute.raiser] = @ + c.reserved,
                                            !.reserved = 0,
                                            !.dispute.state = "DisputeRaisedAndAccepted"],
                                  fn, args, "Ok")
               [] c.vote.outcome = "Rejected" ->
                    CourtReturned([c EXCEPT !.free[c.dispute.locker] = @ + c.reserved,
                                            !.reserved = 0,
                                            !.dispute.state = "DisputeRaisedAndRejected"],
                                  fn, args, "Ok")
               [] OTHER ->
                    CourtReturned([c EXCEPT !.inconclusive = TRUE], fn, args,
                                  "VoteOutcomeInconclusiveSoPollCannotExecuteOutcome")

\* mutant: a poll of an undecided vote closes the dispute as rejected
poll_dispute_rejecting_undecided(c, signer, dispute_id) ==
    LET fn == "poll_dispute_to_execute_outcome"
        args == <<signer, dispute_id>>
    IN  IF c.dispute.state # "DisputeRaisedAndVoteDispatched"
        THEN CourtReturned(c, fn, args, "ActiveDisputeCannotBePolledFromCurrentState")
        ELSE CASE c.vote.outcome = "Approved" ->
                    CourtReturned([c EXCEPT !.free[c.dispute.raiser] = @ + c.reserved,
                                            !.reserved = 0,
                                            !.dispute.state = "DisputeRaisedAndAccepted"],
                                  fn, args, "Ok")
               [] OTHER ->
                    CourtReturned([c EXCEPT !.free[c.dispute.locker] = @ + c.reserved,
                                            !.reserved = 0,
                                            !.dispute.state = "DisputeRaisedAndRejected"],
                                  fn, args, "Ok")

\* the poll reads the outcome of the dispute's vote; `inconclusive` records
\* that a poll found the vote undecided (history, not stored by the court)
poll_dispute_to_execute_outcome(c, signer, dispute_id) ==
    LET fn == "poll_dispute_to_execute_outcome"
        args == <<signer, dispute_id>>
    IN  IF c.dispute.state # "DisputeRaisedAndVoteDispatched"
        THEN CourtReturned(c, fn, args, "ActiveDisputeCannotBePolledFromCurrentState")
        ELSE CASE c.vote.outcome = "Approved" ->
                    CourtReturned([c EXCEPT !.free[c.dispute.raiser] = @ + c.reserved,
                                            !.reserved = 0,
                                            !.dispute.state = "DisputeRaisedAndAccepted"],
                                  fn, args, "Ok")
               [] c.vote.outcome = "Rejected" ->
                    CourtReturned([c EXCEPT !.free[c.dispute.locker] = @ + c.reserved,
                                            !.reserved = 0,
                                            !.dispute.state = "DisputeRaisedAndRejected"],
                                  fn, args, "Ok")
               [] OTHER ->
                    CourtReturned([c EXCEPT !.inconclusive = TRUE], fn, args,
                                  "VoteOutcomeInconclusiveSoPollCannotExecuteOutcome")

\* what the pallets store: the bank and the court without the record of the
\* last call
BankStored(b) == [b EXCEPT !.called = "none", !.result = "none"]
CourtStored(c) == [c EXCEPT !.called = "none", !.args = <<>>, !.result = "none", !.inconclusive = FALSE]

(***************************************************************************)
(* utils/src/share.rs: ShareProfile.  times_reserved is a u32 and total a  *)
(* Shares; both are scaled down to 0..MaxReserved and 0..MaxShares.  The   *)
(* methods use the plain `+` and `-`: out of range they panic in a build   *)
(* with overflow checks (None here) and wrap in a build without.           *)
(***************************************************************************)
MaxReserved == 3
MaxShares == 2

\* share.rs:39-45
ShareProfile_default == [total |-> 0 + 1, times_reserved |-> 0, locked |-> FALSE]

\* share.rs:70-75
new_shares(total) == [ShareProfile_default EXCEPT !.total = total]

\* share.rs:77-80
add_shares(self, amount, checks) ==
    IF self.total + amount > MaxShares /\ checks THEN None
    ELSE Some([self EXCEPT !.total = (self.total + amount) % (MaxShares + 1)])

\* share.rs:82-85
subtract_shares(self, amount, checks) ==
    IF self.total < amount /\ checks THEN None
    ELSE Some([self EXCEPT !.total = (self.total - amount) % (MaxShares + 1)])

\* share.rs:87-93
increment_times_reserved(self, checks) ==
    IF self.times_reserved + 1 > MaxReserved /\ checks THEN None
    ELSE Some([self EXCEPT !.times_reserved = (self.times_reserved + 1) % (MaxReserved + 1)])

\* share.rs:95-101
decrement_times_reserved(self, checks) ==
    IF self.times_reserved < 1 /\ checks THEN None
    ELSE Some([self EXCEPT !.times_reserved = (self.times_reserved - 1) % (MaxReserved + 1)])

\* share.rs:103-108
lock(self) == [self EXCEPT !.locked = TRUE]

\* share.rs:110-115
unlock(self) == [self EXCEPT !.locked = FALSE]

\* share.rs:117-119
is_unlocked(self) == ~self.locked

(***************************************************************************)
(* pallets/donate/src/lib.rs: the donations.  The currency and the         *)
(* membership of the organizations are the capabilities the pallet calls:  *)
(* T::Currency::transfer with ExistenceRequirement::KeepAlive, and         *)
(* get_group, members and total_issuance of the org pallet.  A dispatchable*)
(* of decl_module! runs in no storage transaction, so what a call wrote    *)
(* before it returned an error stays written.                              *)
(***************************************************************************)
\* the parts per million of a Permill
ACCURACY == 1000000

\* lib.rs:204-207, 215-216  Permill::from_rational_approximation(p, q): the
\* parts per million of p / q, rounded down
Permill_from_rational_approximation(p, q) ==
    LET div_ceil(x, f) == (x \div f) + (IF x % f = 0 THEN 0 ELSE 1)
        q1 == IF q >= 1 THEN q ELSE 1
        p1 == IF p <= q1 THEN p ELSE q1
        factor == IF div_ceil(q1, ACCURACY) >= 1 THEN div_ceil(q1, ACCURACY) ELSE 1
    IN  ((p1 \div factor) * ACCURACY) \div (q1 \div factor)

\* lib.rs:208, 217  Permill::mul_floor(b): b * part / 1 000 000, rounded down
mul_floor(part, b) ==
    (b \div ACCURACY) * part + ((b % ACCURACY) * part) \div ACCURACY

\* the organizations in storage: 1 is owned 30 / 70 of 100 shares, 2 by three
\* members of one share each, 4 by two members of one share each; in 3 the
\* second member of the group has no ownership record; 5 does not exist
Groups == (1 :> <<2, 3>>) @@ (2 :> <<2, 3, 4>>) @@ (3 :> <<3, 4>>) @@ (4 :> <<3, 4>>)
Members ==
    (1 :> ((2 :> 30) @@ (3 :> 70))) @@ (2 :> ((2 :> 1) @@ (3 :> 1) @@ (4 :> 1)))
        @@ (3 :> (3 :> 1)) @@ (4 :> ((3 :> 1) @@ (4 :> 1)))
TotalIssuance == (1 :> 100) @@ (2 :> 3) @@ (3 :> 2) @@ (4 :> 2)

\* lib.rs:135, 162
get_group(org_id) == IF org_id \in DOMAIN Groups THEN Some(Groups[org_id]) ELSE None

\* lib.rs:202
members(org_id, account) ==
    IF org_id \in DOMAIN Members /\ account \in DOMAIN Members[org_id]
    THEN Some(new_shares(Members[org_id][account]))
    ELSE None

\* lib.rs:201
total_issuance(org_id) == IF org_id \in DOMAIN TotalIssuance THEN TotalIssuance[org_id] ELSE 0

\* the least balance of an account that stays alive
ExistentialDeposit == 1

\* a transfer that credits the receiver and forgets to debit the sender
transfer_without_debit(free, transactor, dest, value) ==
    IF value = 0 \/ transactor = dest THEN [free |-> free, result |-> "Ok"]
    ELSE IF free[transactor] < value THEN [free |-> free, result |-> "InsufficientBalance"]
    ELSE IF free[dest] + value < ExistentialDeposit
    THEN [free |-> free, result |-> "ExistentialDeposit"]
    ELSE IF free[transactor] - value < ExistentialDeposit
    THEN [free |-> free, result |-> "KeepAlive"]
    ELSE [free |-> [free EXCEPT ![dest] = @ + value],
          result |-> "Ok"]

\* lib.rs:148-153, 173-178, 187-192  T::Currency::transfer(.., KeepAlive) of
\* pallet_balances: nothing moves when the value is zero or the sender pays
\* itself; the sender must own the value and keep the existential deposit
transfer(free, transactor, dest, value) ==
    IF value = 0 \/ transactor = dest THEN [free |-> free, result |-> "Ok"]
    ELSE IF free[transactor] < value THEN [free |-> free, result |-> "InsufficientBalance"]
    ELSE IF free[dest] + value < ExistentialDeposit
    THEN [free |-> free, result |-> "ExistentialDeposit"]
    ELSE IF free[transactor] - value < ExistentialDeposit
    THEN [free |-> free, result |-> "KeepAlive"]
    ELSE [free |-> [free EXCEPT ![transactor] = @ - value, ![dest] = @ + value],
          result |-> "Ok"]

\* lib.rs:196-209
calculate_proportional_amount(amount, account, group) ==
    LET issuance == total_issuance(group)
        acc_ownership == members(group, account)
    IN  IF acc_ownership = None THEN None
        ELSE Some(mul_floor(
                Permill_from_rational_approximation(Unwrap(acc_ownership).total, issuance),
                amount))

\* lib.rs:210-218
calculate_uniform_amount(amount, group_count) ==
    Some(mul_floor(Permill_from_rational_approximation(1, group_count), amount))

\* lib.rs:139-157, 169-182  the map over the members, collected into a
\* DispatchResult: it stops at the first error.  issued lists the calls of
\* transfer, the failing one included
RECURSIVE pay_members(_, _, _, _)
pay_members(st, sender, group, amt_due) ==
    IF group = <<>> \/ st.result # "Ok" THEN st
    ELSE LET acc == Head(group)
             due == amt_due[acc]
         IN  IF due = None THEN [st EXCEPT !.result = "AccountHasNoOwnershipInOrg"]
             ELSE LET t == transfer(st.free, sender, acc, Unwrap(due))
                  IN  pay_members(
                        [free |-> t.free,
                         transferred_amt |-> IF t.result = "Ok"
                                             THEN st.transferred_amt + Unwrap(due)
                                             ELSE st.transferred_amt,
                         issued |-> Append(st.issued, <<acc, Unwrap(due)>>),
                         result |-> t.result],
                        sender, Tail(group), amt_due)

\* a donation that leaves the check of the balance to the transfers
donate_without_balance_check(free, sender, recipient, remainder_recipient, amt) ==
    LET group == get_group(recipient.org)
        DonateFailed(balances, transfers, error) ==
            [free |-> balances, issued |-> transfers, result |-> error, value |-> None]
    IN
    IF FALSE
    THEN DonateFailed(free, <<>>, "NotEnoughFundsInFreeToMakeTransfer")
    ELSE IF group = None THEN DonateFailed(free, <<>>, "CannotDonateToOrgThatDNE")
    ELSE LET accs == Unwrap(group)
             amt_due ==
                IF recipient.rep = "Weighted"
                THEN [acc \in {accs[i] : i \in DOMAIN accs} |->
                        calculate_proportional_amount(amt, acc, recipient.org)]
                ELSE [acc \in {accs[i] : i \in DOMAIN accs} |->
                        calculate_uniform_amount(amt, Len(accs))]
             paid == pay_members([free |-> free, transferred_amt |-> 0,
                                  issued |-> <<>>, result |-> "Ok"],
                                 sender, accs, amt_due)
             remainder == amt - paid.transferred_amt
             last == transfer(paid.free, sender, remainder_recipient, remainder)
             calls == Append(paid.issued, <<remainder_recipient, remainder>>)
         IN  IF paid.result # "Ok" THEN DonateFailed(paid.free, paid.issued, paid.result)
             ELSE IF last.result # "Ok" THEN DonateFailed(last.free, calls, last.result)
             ELSE [free |-> last.free, issued |-> calls, result |-> "Ok",
                   value |-> Some(<<amt - remainder, remainder>>)]

\* lib.rs:120-195  recipient is OrgRep::Weighted(org) or OrgRep::Equal(org);
\* the group is an OrderedSet, a sorted sequence without duplicates
donate(free, sender, recipient, remainder_recipient, amt) ==
    LET group == get_group(recipient.org)
        DonateFailed(balances, transfers, error) ==
            [free |-> balances, issued |-> transfers, result |-> error, value |-> None]
    IN
    IF free[sender] < amt
    THEN DonateFailed(free, <<>>, "NotEnoughFundsInFreeToMakeTransfer")
    ELSE IF group = None THEN DonateFailed(free, <<>>, "CannotDonateToOrgThatDNE")
    ELSE LET accs == Unwrap(group)
             amt_due ==
                IF recipient.rep = "Weighted"
                THEN [acc \in {accs[i] : i \in DOMAIN accs} |->
                        calculate_proportional_amount(amt, acc, recipient.org)]
                ELSE [acc \in {accs[i] : i \in DOMAIN accs} |->
                        calculate_uniform_amount(amt, Len(accs))]
             paid == pay_members([free |-> free, transferred_amt |-> 0,
                                  issued |-> <<>>, result |-> "Ok"],
                                 sender, accs, amt_due)
             remainder == amt - paid.transferred_amt
             last == transfer(paid.free, sender, remainder_recipient, remainder)
             calls == Append(paid.issued, <<remainder_recipient, remainder>>)
         IN  IF paid.result # "Ok" THEN DonateFailed(paid.free, paid.issued, paid.result)
             ELSE IF last.result # "Ok" THEN DonateFailed(last.free, calls, last.result)
             ELSE [free |-> last.free, issued |-> calls, result |-> "Ok",
                   value |-> Some(<<amt - remainder, remainder>>)]

\* the balances before the first donation
DonateBalances == (1 :> 101) @@ (2 :> 10) @@ (3 :> 0) @@ (4 :> 0)

DonateArgs(sender, org, remainder_recipient, amt) ==
    [sender |-> sender, org |-> org, remainder_recipient |-> remainder_recipient,
     amt |-> amt]

\* the free balances, and of the last call: its name, its arguments, the calls
\* of transfer it made, its result and the event it deposited
LedgerGenesis ==
    [free |-> DonateBalances, donations |-> 0, called |-> "none",
     args |-> DonateArgs(0, 0, 0, 0), issued |-> <<>>, result |-> "none",
     value |-> None, event |-> None]

DonationCalled(l, fn, event_name, args, d) ==
    [free |-> d.free, donations |-> l.donations + 1, called |-> fn, args |-> args,
     issued |-> d.issued, result |-> d.result, value |-> d.value,
     event |-> IF d.result = "Ok"
               THEN Some(<<event_name, args.sender, Unwrap(d.value)[1], args.org,
                           Unwrap(d.value)[2], args.remainder_recipient>>)
               ELSE None]

\* lib.rs:70-91
make_prop_donation(l, sender, org, remainder_recipient, amt) ==
    DonationCalled(l, "make_prop_donation", "PropDonationExecuted",
                   DonateArgs(sender, org, remainder_recipient, amt),
                   donate(l.free, sender, [rep |-> "Weighted", org |-> org], remainder_recipient, amt))

\* lib.rs:93-114
make_equal_donation(l, sender, org, remainder_recipient, amt) ==
    DonationCalled(l, "make_equal_donation", "EqualDonationExecuted",
                   DonateArgs(sender, org, remainder_recipient, amt),
                   donate(l.free, sender, [rep |-> "Equal", org |-> org], remainder_recipient, amt))

(***************************************************************************)
(* utils/src/share.rs: SimpleShareGenesis.  The entries are pairs          *)
(* <<account, shares>>; the shares are summed with `+=`, which panics out  *)
(* of range in a build with overflow checks (None here) and wraps in a     *)
(* build without.                                                          *)
(***************************************************************************)
\* share.rs:161  Vec::dedup: of consecutive equal elements, here equal pairs,
\* the first is kept
RECURSIVE dedup(_)
dedup(vec) ==
    IF Len(vec) <= 1 THEN vec
    ELSE IF vec[1] = vec[2] THEN dedup(Tail(vec))
    ELSE <<vec[1]>> \o dedup(Tail(vec))

\* share.rs:162-164, 179-181  the loop `sum += entry.1` from Shares::zero()
RECURSIVE sum_shares(_, _, _)
sum_shares(sum, entries, checks) ==
    IF entries = <<>> THEN Some(sum)
    ELSE IF sum + Head(entries)[2] > MaxShares /\ checks THEN None
    ELSE sum_shares((sum + Head(entries)[2]) % (MaxShares + 1), Tail(entries), checks)

\* a mint that keeps the raw list and sums the deduplicated one
SimpleShareGenesis_from_keeping_duplicates(genesis, checks) ==
    LET total == sum_shares(0, dedup(genesis), checks)
    IN  IF total = None THEN None
        ELSE Some([total |-> Unwrap(total), account_ownership |-> genesis])

\* share.rs:156-169
SimpleShareGenesis_from(genesis, checks) ==
    LET dedup_genesis == dedup(genesis)
        total == sum_shares(0, dedup_genesis, checks)
    IN  IF total = None THEN None
        ELSE Some([total |-> Unwrap(total), account_ownership |-> dedup_genesis])

\* share.rs:177-183
verify_shape(self, checks) ==
    LET sum == sum_shares(0, self.account_ownership, checks)
    IN  IF sum = None THEN None ELSE Some(Unwrap(sum) = self.total)

(***************************************************************************)
(* client/cli/src/shares.rs: the burn commands.  A command is run once per *)
(* process: it parses its accounts, sends one request to the client and    *)
(* prints the event.  The client mints what issue_shares and               *)
(* batch_issue_shares ask for; holder is the account whose profile the     *)
(* model follows.                                                          *)
(***************************************************************************)
\* OrgClient::issue_shares: who gets `shares` new shares
issue_shares(self, holder, who, shares) ==
    IF who = holder THEN [self EXCEPT !.total = @ + shares] ELSE self

\* OrgClient::batch_issue_shares: every listed account gets its amount
RECURSIVE batch_issue_shares(_, _, _)
batch_issue_shares(self, holder, accounts) ==
    IF accounts = <<>> THEN self
    ELSE batch_issue_shares(issue_shares(self, holder, Head(accounts)[1], Head(accounts)[2]),
                            holder, Tail(accounts))

(***************************************************************************)
(* State                                                                   *)
(***************************************************************************)
VARIABLES
    vs,       \* the VoteState value under test
    fresh,    \* the value the constructor returned
    ctor,     \* which constructor built it: "default", "new", "new_unanimous_consent"
    lastOp,   \* history: the last operation and its argument
    active,   \* history (SpecBallots): bag of the votes applied and not yet reverted
    stack,    \* history (SpecBallots): the applied votes in order, during a round trip
    hist,     \* history (SpecBallots): flags about the operations performed so far
    overflow_checks, \* build profile: TRUE when `+` and `-` panic on overflow
    call,     \* SpecCalls: the last call of a pure function, with its result
    bank,     \* SpecBank: the bank account, its spend proposal and the last call
    court,    \* SpecGov: the dispute, its locked funds, its vote and the last call
    ledger,   \* SpecDonate: the free balances, and the last donation with its result
    profile   \* SpecShares: the ShareProfile value under test

\* the variables the operations of VoteState leave alone
others == <<overflow_checks, call, bank, court, ledger, profile>>

vars == <<vs, fresh, ctor, lastOp, active, stack, hist, others>>

\* the votes cast in the model: every magnitude and direction without a
\* justification, and one ballot that carries a justification
Votes ==
    {Vote_new(m, d, None) : m \in Magnitudes, d \in VoterView}
        \cup {Vote_new(1, "InFavor", Some("h1"))}

\* the new topics handed to the topic updates
NewTopics == {"h1"}

\* the threshold configurations ThresholdConfig::new accepts
ThresholdArgs ==
    (0..MaxThreshold) \X ({None} \cup {Some(t) : t \in 1..(MaxThreshold + 1)})
ThresholdConfigs ==
    {Unwrap(ThresholdConfig_new(a[1], a[2])) :
        a \in {b \in ThresholdArgs : IsSome(ThresholdConfig_new(b[1], b[2]))}}

\* the constructor arguments that no transition reads (all differ from default())
InertArgs == [topic |-> Some("h0"), initialized |-> 1, expires |-> Some(2)]

\* the last operation: its name, its argument and the outcome it started from
NoOp == [kind |-> "none", arg |-> None, before |-> "NotStarted"]
Op(kind, arg, before) == [kind |-> kind, arg |-> Some(arg), before |-> before]

HistInit == [terminalSeen |-> FALSE, roundTrip |-> "applying", applied |-> 0, strays |-> 0]

IsTerminal(outcome) == outcome \in {"Approved", "Rejected"}

\* no pure function was called yet
NoCall == [fn |-> "none"]

InitWith(c, state) ==
    /\ vs = state
    /\ fresh = state
    /\ ctor = c
    /\ lastOp = NoOp
    /\ active = EmptyBag
    /\ stack = <<>>
    /\ hist = HistInit

InitVoteState ==
    \/ InitWith("default", VoteState_default)
    \/ \E passage \in ThresholdConfigs,
          rejection \in {None} \cup {Some(c) : c \in ThresholdConfigs} :
            InitWith("new", VoteState_new(InertArgs.topic, MaxSignal, passage, rejection,
                                          InertArgs.initialized, InertArgs.expires))
    \/ \E all_possible_turnout \in 0..MaxThreshold :
            InitWith("new_unanimous_consent",
                     new_unanimous_consent(InertArgs.topic, all_possible_turnout,
                                           InertArgs.initialized, InertArgs.expires))

\* Spec and SpecBallots keep every tally in range, so the build profile is never
\* read there: it is fixed to the profile with overflow checks.
Init ==
    /\ InitVoteState
    /\ overflow_checks = TRUE
    /\ call = NoCall
    /\ bank = BankGenesis
    /\ court = CourtGenesis
    /\ ledger = LedgerGenesis
    /\ profile = ShareProfile_default

(***************************************************************************)
(* Spec: any sequence of apply, revert and topic updates.  VoteState does  *)
(* not know which votes were applied, so revert takes any vote.            *)
(***************************************************************************)
\* the sums of apply(self, vote) stay within 0..MaxSignal
AddFits(self, vote) ==
    CASE vote.direction = "InFavor" ->
            /\ self.turnout + vote.magnitude <= MaxSignal
            /\ self.in_favor + vote.magnitude <= MaxSignal
      [] vote.direction = "Against" ->
            /\ self.turnout + vote.magnitude <= MaxSignal
            /\ self.against + vote.magnitude <= MaxSignal
      [] vote.direction = "Abstain" -> self.turnout + vote.magnitude <= MaxSignal
      [] OTHER -> TRUE

\* the differences of revert(self, vote) stay within 0..MaxSignal
SubFits(self, vote) ==
    CASE vote.direction = "InFavor" ->
            /\ self.turnout >= vote.magnitude
            /\ self.in_favor >= vote.magnitude
      [] vote.direction = "Against" ->
            /\ self.turnout >= vote.magnitude
            /\ self.against >= vote.magnitude
      [] vote.direction = "Abstain" -> self.turnout >= vote.magnitude
      [] OTHER -> TRUE

Apply(vote) ==
    /\ AddFits(vs, vote)
    /\ vs' = apply(vs, vote)
    /\ lastOp' = Op("apply", vote, vs.outcome)
    /\ UNCHANGED <<fresh, ctor, active, stack, hist, others>>

Revert(vote) ==
    /\ SubFits(vs, vote)
    /\ vs' = revert(vs, vote)
    /\ lastOp' = Op("revert", vote, vs.outcome)
    /\ UNCHANGED <<fresh, ctor, active, stack, hist, others>>

UpdateTopicAndClearState(new_topic) ==
    /\ vs' = update_topic_and_clear_state(vs, new_topic)
    /\ lastOp' = Op("update_topic_and_clear_state", new_topic, vs.outcome)
    /\ UNCHANGED <<fresh, ctor, active, stack, hist, others>>

UpdateTopicWithoutClearingState(new_topic) ==
    /\ vs' = update_topic_without_clearing_state(vs, new_topic)
    /\ lastOp' = Op("update_topic_without_clearing_state", new_topic, vs.outcome)
    /\ UNCHANGED <<fresh, ctor, active, stack, hist, others>>

Next ==
    \/ \E vote \in Votes : Apply(vote)
    \/ \E vote \in Votes : Revert(vote)
    \/ \E new_topic \in NewTopics : UpdateTopicAndClearState(new_topic)
    \/ \E new_topic \in NewTopics : UpdateTopicWithoutClearingState(new_topic)

Spec == Init /\ [][Next]_vars

(***************************************************************************)
(* SpecBallots: the votes a consumer casts and retracts.  Every reverted   *)
(* vote is one that was applied earlier and not yet reverted.  Clearing    *)
(* the tallies drops the votes cast so far: none of them is active after.  *)
(***************************************************************************)
BagOf(vote) == SetToBag({vote})

CastVote(vote) ==
    /\ BagCardinality(active) < MaxVotes
    /\ AddFits(vs, vote)
    /\ vs' = apply(vs, vote)
    /\ lastOp' = Op("apply", vote, vs.outcome)
    /\ active' = active (+) BagOf(vote)
    /\ LET rt == IF hist.roundTrip = "applying" THEN "applying" ELSE "off"
       IN  /\ hist' = [terminalSeen |-> hist.terminalSeen \/ IsTerminal(vs'.outcome),
                       roundTrip |-> rt,
                       applied |-> IF rt = "applying" THEN hist.applied + 1 ELSE 0,
                       strays |-> hist.strays]
           /\ stack' = IF rt = "applying" THEN Append(stack, vote) ELSE <<>>
    /\ UNCHANGED <<fresh, ctor, others>>

RetractVote(vote) ==
    /\ BagIn(vote, active)
    /\ SubFits(vs, vote)
    /\ vs' = revert(vs, vote)
    /\ lastOp' = Op("revert", vote, vs.outcome)
    /\ active' = active (-) BagOf(vote)
    /\ LET top == /\ hist.roundTrip # "off"
                  /\ stack # <<>>
                  /\ stack[Len(stack)] = vote
       IN  /\ hist' = [terminalSeen |-> hist.terminalSeen \/ IsTerminal(vs'.outcome),
                       roundTrip |-> IF top THEN "reverting" ELSE "off",
                       applied |-> IF top THEN hist.applied ELSE 0,
                       strays |-> hist.strays]
           /\ stack' = IF top THEN SubSeq(stack, 1, Len(stack) - 1) ELSE <<>>
    /\ UNCHANGED <<fresh, ctor, others>>

ClearBallots(new_topic) ==
    /\ vs' = update_topic_and_clear_state(vs, new_topic)
    /\ lastOp' = Op("update_topic_and_clear_state", new_topic, vs.outcome)
    /\ active' = EmptyBag
    /\ stack' = <<>>
    /\ hist' = [hist EXCEPT !.roundTrip = "off", !.applied = 0]
    /\ UNCHANGED <<fresh, ctor, others>>

RenameBallot(new_topic) ==
    /\ vs' = update_topic_without_clearing_state(vs, new_topic)
    /\ lastOp' = Op("update_topic_without_clearing_state", new_topic, vs.outcome)
    /\ stack' = <<>>
    /\ hist' = [hist EXCEPT !.roundTrip = "off", !.applied = 0]
    /\ UNCHANGED <<fresh, ctor, active, others>>

NextBallots ==
    \/ \E vote \in Votes : CastVote(vote)
    \/ \E vote \in Votes : RetractVote(vote)
    \/ \E new_topic \in NewTopics : ClearBallots(new_topic)
    \/ \E new_topic \in NewTopics : RenameBallot(new_topic)

SpecBallots == Init /\ [][NextBallots]_vars

(***************************************************************************)
(* SpecStray: SpecBallots, and reverts of votes that are not active.       *)
(* VoteState accepts them: it does not know which votes were applied.      *)
(***************************************************************************)
StrayRevert(vote) ==
    /\ ~BagIn(vote, active)
    /\ hist.strays < MaxStrayReverts
    /\ SubFits(vs, vote)
    /\ vs' = revert(vs, vote)
    /\ lastOp' = Op("revert", vote, vs.outcome)
    /\ stack' = <<>>
    /\ hist' = [terminalSeen |-> hist.terminalSeen \/ IsTerminal(vs'.outcome),
                roundTrip |-> "off",
                applied |-> 0,
                strays |-> hist.strays + 1]
    /\ UNCHANGED <<fresh, ctor, active, others>>

NextStray ==
    \/ NextBallots
    \/ \E vote \in Votes : StrayRevert(vote)

\* the tallies do not depend on the thresholds: SpecStray starts from the
\* constructors that take none
InitStray ==
    /\ \/ InitWith("default", VoteState_default)
       \/ \E all_possible_turnout \in 0..MaxThreshold :
            InitWith("new_unanimous_consent",
                     new_unanimous_consent(InertArgs.topic, all_possible_turnout,
                                           InertArgs.initialized, InertArgs.expires))
    /\ overflow_checks = TRUE
    /\ call = NoCall
    /\ bank = BankGenesis
    /\ court = CourtGenesis
    /\ ledger = LedgerGenesis
    /\ profile = ShareProfile_default

SpecStray == InitStray /\ [][NextStray]_vars

(***************************************************************************)
(* SpecOverflow: apply and revert with no cap on the tallies.  Signal is a *)
(* fixed-width unsigned integer (u64 in the runtimes of the tests), here   *)
(* 0..MaxSignal.  The tally updates use the plain `+` and `-` of the type: *)
(* a build without overflow checks wraps, a build with them panics, and a  *)
(* panic abandons the call, so the stored state stays as it was.           *)
(***************************************************************************)
ApplyUnchecked(vote) ==
    /\ IF AddFits(vs, vote) \/ ~overflow_checks
       THEN /\ vs' = apply(vs, vote)
            /\ lastOp' = Op("apply", vote, vs.outcome)
       ELSE /\ vs' = vs
            /\ lastOp' = Op("apply_panicked", vote, vs.outcome)
    /\ UNCHANGED <<fresh, ctor, active, stack, hist, others>>

RevertUnchecked(vote) ==
    /\ IF SubFits(vs, vote) \/ ~overflow_checks
       THEN /\ vs' = revert(vs, vote)
            /\ lastOp' = Op("revert", vote, vs.outcome)
       ELSE /\ vs' = vs
            /\ lastOp' = Op("revert_panicked", vote, vs.outcome)
    /\ UNCHANGED <<fresh, ctor, active, stack, hist, others>>

NextOverflow ==
    \/ \E vote \in Votes : ApplyUnchecked(vote)
    \/ \E vote \in Votes : RevertUnchecked(vote)

\* either build profile; the constructors that take no thresholds
InitOverflow ==
    /\ \/ InitWith("default", VoteState_default)
       \/ \E all_possible_turnout \in 0..MaxThreshold :
            InitWith("new_unanimous_consent",
                     new_unanimous_consent(InertArgs.topic, all_possible_turnout,
                                           InertArgs.initialized, InertArgs.expires))
    /\ overflow_checks \in BOOLEAN
    /\ call = NoCall
    /\ bank = BankGenesis
    /\ court = CourtGenesis
    /\ ledger = LedgerGenesis
    /\ profile = ShareProfile_default

SpecOverflow == InitOverflow /\ [][NextOverflow]_vars

(***************************************************************************)
(* SpecCalls: calls of the constructors and of the functions that take no  *)
(* VoteState.  `call` holds the last call: its name, arguments and result. *)
(***************************************************************************)
Called(fn, args, result) == [fn |-> fn, args |-> args, result |-> result]

\* the arguments tried for ThresholdConfig::new, rejected ones included
SupportArgs == 0..(MaxThreshold + 1)
TurnoutArgs == {None} \cup {Some(t) : t \in 0..(MaxThreshold + 1)}

CallThresholdConfigNew(support_required, turnout_required) ==
    /\ call' = Called("ThresholdConfig::new", <<support_required, turnout_required>>,
                      ThresholdConfig_new(support_required, turnout_required))
    /\ UNCHANGED <<vs, fresh, ctor, lastOp, active, stack, hist, overflow_checks, bank, court, ledger, profile>>

CallSetNewView(self, new_direction, new_justification) ==
    /\ call' = Called("Vote::set_new_view", <<self, new_direction, new_justification>>,
                      set_new_view(self, new_direction, new_justification))
    /\ UNCHANGED <<vs, fresh, ctor, lastOp, active, stack, hist, overflow_checks, bank, court, ledger, profile>>

\* the arguments tried for the constructors of VoteState
OptionThresholdConfigs == {None} \cup {Some(c) : c \in ThresholdConfigs}
BlockNumbers == {0, 1}
TopicArgs == {None, InertArgs.topic}
TurnoutLimits == {0, MaxSignal}
OptionBlockNumbers == {None, Some(2)}

CallVoteStateDefault ==
    /\ call' = Called("VoteState::default", <<>>, VoteState_default)
    /\ UNCHANGED <<vs, fresh, ctor, lastOp, active, stack, hist, overflow_checks, bank, court, ledger, profile>>

CallVoteStateNew(topic, all_possible_turnout, passage_threshold, rejection_threshold, initialized, expires) ==
    /\ call' = Called("VoteState::new",
                      <<topic, all_possible_turnout, passage_threshold,
                        rejection_threshold, initialized, expires>>,
                      VoteState_new(topic, all_possible_turnout, passage_threshold,
                                    rejection_threshold, initialized, expires))
    /\ UNCHANGED <<vs, fresh, ctor, lastOp, active, stack, hist, overflow_checks, bank, court, ledger, profile>>

CallNewUnanimousConsent(topic, all_possible_turnout, initialized, expires) ==
    /\ call' = Called("VoteState::new_unanimous_consent",
                      <<topic, all_possible_turnout, initialized, expires>>,
                      new_unanimous_consent(topic, all_possible_turnout,
                                            initialized, expires))
    /\ UNCHANGED <<vs, fresh, ctor, lastOp, active, stack, hist, overflow_checks, bank, court, ledger, profile>>

NextCalls ==
    \/ \E s \in SupportArgs, t \in TurnoutArgs : CallThresholdConfigNew(s, t)
    \/ \E self \in Votes, d \in VoterView, j \in OptionHash : CallSetNewView(self, d, j)
    \/ CallVoteStateDefault
    \/ \E topic \in TopicArgs, apt \in TurnoutLimits, passage \in ThresholdConfigs,
          rejection \in OptionThresholdConfigs, initialized \in BlockNumbers,
          expires \in OptionBlockNumbers :
            CallVoteStateNew(topic, apt, passage, rejection, initialized, expires)
    \/ \E topic \in TopicArgs, apt \in TurnoutLimits, initialized \in BlockNumbers,
          expires \in OptionBlockNumbers :
            CallNewUnanimousConsent(topic, apt, initialized, expires)

InitCalls ==
    /\ InitWith("default", VoteState_default)
    /\ overflow_checks = TRUE
    /\ call = NoCall
    /\ bank = BankGenesis
    /\ court = CourtGenesis
    /\ ledger = LedgerGenesis
    /\ profile = ShareProfile_default

SpecCalls == InitCalls /\ [][NextCalls]_vars

(***************************************************************************)
(* SpecBank: the calls of the bank on one spend proposal.  The vote of the *)
(* proposal is the VoteState `vs`: trigger_vote_on_spend_proposal builds   *)
(* it, the members' votes are applied to it and poll reads its outcome.    *)
(* `active` holds the votes submitted.                                     *)
(***************************************************************************)
\* bank/src/tests.rs:182-194  the callers and deposits of the tests
Callers == {Supervisor, 69}
Deposits == {MinDeposit - 1, MinDeposit}

\* bank/src/tests.rs:210-213  the bank ids of the tests; the spend of 10 to 3
BankIds == {1, 2}
SpendAmounts == {10}
Recipients == {3}

\* the rejection thresholds of the vote on the proposal
RejectionArgs == {None, Some(new_support_threshold(0))}

OpenOrgBankAccount(caller, deposit) ==
    /\ ~bank.opened
    /\ bank' = open_org_bank_account(bank, caller, deposit)
    /\ UNCHANGED <<vs, fresh, ctor, lastOp, active, stack, hist, overflow_checks, call, court, ledger, profile>>

ProposeSpend(bank_id, amount, dest) ==
    /\ bank.proposal = NoProposal
    /\ bank' = propose_spend(bank, bank_id, amount, dest)
    /\ UNCHANGED <<vs, fresh, ctor, lastOp, active, stack, hist, overflow_checks, call, court, ledger, profile>>

TriggerVoteOnSpendProposal(passage_threshold, rejection_threshold) ==
    /\ bank' = trigger_vote_on_spend_proposal(bank)
    /\ IF bank'.result = "Ok"
       THEN /\ vs' = VoteState_new(None, MaxSignal, passage_threshold,
                                   rejection_threshold, 1, None)
            /\ fresh' = vs'
            /\ ctor' = "new"
       ELSE UNCHANGED <<vs, fresh, ctor>>
    /\ UNCHANGED <<lastOp, active, stack, hist, overflow_checks, call, court, ledger, profile>>

SubmitVote(vote) ==
    /\ bank.proposal.state \notin {"None", "WaitingForApproval"}
    /\ BagCardinality(active) < MaxVotes
    /\ AddFits(vs, vote)
    /\ vs' = apply(vs, vote)
    /\ active' = active (+) BagOf(vote)
    /\ bank' = Returned(bank, "submit_vote", "Ok")
    /\ UNCHANGED <<fresh, ctor, lastOp, stack, hist, overflow_checks, call, court, ledger, profile>>

PollSpendProposal ==
    /\ bank' = poll_spend_proposal(bank, vs.outcome)
    /\ UNCHANGED <<vs, fresh, ctor, lastOp, active, stack, hist, overflow_checks, call, court, ledger, profile>>

SudoApproveSpendProposal ==
    /\ bank' = sudo_approve_spend_proposal(bank)
    /\ UNCHANGED <<vs, fresh, ctor, lastOp, active, stack, hist, overflow_checks, call, court, ledger, profile>>

NextBank ==
    \/ \E caller \in Callers, deposit \in Deposits : OpenOrgBankAccount(caller, deposit)
    \/ \E bank_id \in BankIds, amount \in SpendAmounts, dest \in Recipients :
            ProposeSpend(bank_id, amount, dest)
    \/ \E passage \in ThresholdConfigs, rejection \in RejectionArgs :
            TriggerVoteOnSpendProposal(passage, rejection)
    \/ \E vote \in Votes : SubmitVote(vote)
    \/ PollSpendProposal
    \/ SudoApproveSpendProposal

InitBank ==
    /\ InitWith("default", VoteState_default)
    /\ overflow_checks = TRUE
    /\ call = NoCall
    /\ bank = BankGenesis
    /\ court = CourtGenesis
    /\ ledger = LedgerGenesis
    /\ profile = ShareProfile_default

SpecBank == InitBank /\ [][NextBank]_vars

(***************************************************************************)
(* SpecGov: the two governance consumers.  bank/src/tests.rs and           *)
(* court/src/tests.rs build separate runtimes, so a behaviour is a run of  *)
(* the bank or a run of the court: the pallet called first is the one      *)
(* called from then on.                                                    *)
(***************************************************************************)
\* court/src/tests.rs:183-213  the amounts of the tests: below the minimum,
\* above the locker's balance, and accepted
DisputeAmounts == {MinimumDisputeAmount - 1, MinimumDisputeAmount, 101}

\* court/src/tests.rs:230-231  the signers of the tests
Signers == {1, 2}

\* court/src/tests.rs:296  the votes of the members, who weigh the same
EqualVotes == {Vote_new(1, d, None) : d \in VoterView}

\* the passage thresholds of the vote on a dispute
DisputeThresholds == {new_support_threshold(0), new_support_threshold(1)}

RegisterDispute(locker, amount, dispute_raiser) ==
    /\ court.dispute = NoDispute
    /\ court' = register_dispute_type_with_resolution_path(court, locker, amount,
                                                           dispute_raiser)
    /\ UNCHANGED <<vs, fresh, ctor, lastOp, active, stack, hist, overflow_checks, call, bank, ledger, profile>>

RaiseDispute(signer, dispute_id, passage_threshold) ==
    /\ court' = raise_dispute_to_trigger_vote(
                    court, signer, dispute_id,
                    VoteState_new(None, MaxSignal, passage_threshold, None, 1, None))
    /\ UNCHANGED <<vs, fresh, ctor, lastOp, active, stack, hist, overflow_checks, call, bank, ledger, profile>>

SubmitDisputeVote(vote) ==
    /\ court.dispute.state \notin {"None", "DisputeNotRaised"}
    /\ court.votes < MaxVotes
    /\ AddFits(court.vote, vote)
    /\ court' = CourtReturned([court EXCEPT !.vote = apply(court.vote, vote),
                                            !.votes = @ + 1],
                              "submit_vote", <<vote>>, "Ok")
    /\ UNCHANGED <<vs, fresh, ctor, lastOp, active, stack, hist, overflow_checks, call, bank, ledger, profile>>

PollDispute(signer, dispute_id) ==
    /\ court.dispute # NoDispute
    /\ court' = poll_dispute_to_execute_outcome(court, signer, dispute_id)
    /\ UNCHANGED <<vs, fresh, ctor, lastOp, active, stack, hist, overflow_checks, call, bank, ledger, profile>>

NextCourt ==
    \/ \E locker \in {1}, amount \in DisputeAmounts, raiser \in {2} :
            RegisterDispute(locker, amount, raiser)
    \/ \E signer \in Signers, passage \in DisputeThresholds : RaiseDispute(signer, 1, passage)
    \/ \E vote \in EqualVotes : SubmitDisputeVote(vote)
    \/ \E signer \in Signers : PollDispute(signer, 1)

NextGov ==
    \/ court = CourtGenesis /\ NextBank
    \/ bank = BankGenesis /\ NextCourt

SpecGov == InitBank /\ [][NextGov]_vars

(***************************************************************************)
(* SpecDonate: donations to the organizations in storage.                  *)
(***************************************************************************)
MaxDonations == 2

\* the donations of the model: by a donor outside the groups and by a member,
\* to every organization and to one that does not exist, of amounts the
\* shares divide and do not divide, the last one above one donor's balance
Donations == [sender : {1, 2}, org : 1..5, remainder_recipient : {1, 4}, amt : {3, 10, 101}]

MakePropDonation(sender, org, remainder_recipient, amt) ==
    /\ ledger.donations < MaxDonations
    /\ ledger' = make_prop_donation(ledger, sender, org, remainder_recipient, amt)
    /\ UNCHANGED <<vs, fresh, ctor, lastOp, active, stack, hist, overflow_checks, call, bank, court, profile>>

MakeEqualDonation(sender, org, remainder_recipient, amt) ==
    /\ ledger.donations < MaxDonations
    /\ ledger' = make_equal_donation(ledger, sender, org, remainder_recipient, amt)
    /\ UNCHANGED <<vs, fresh, ctor, lastOp, active, stack, hist, overflow_checks, call, bank, court, profile>>

NextDonate ==
    \/ \E d \in Donations :
            MakePropDonation(d.sender, d.org, d.remainder_recipient, d.amt)
    \/ \E d \in Donations :
            MakeEqualDonation(d.sender, d.org, d.remainder_recipient, d.amt)

SpecDonate == InitBank /\ [][NextDonate]_vars

(***************************************************************************)
(* SpecShares: one ShareProfile under its methods, in either build         *)
(* profile.  A call that panics returns nothing (None) and leaves the      *)
(* profile it was called on.                                               *)
(***************************************************************************)
ShareAmounts == 0..MaxShares

NewShares(total) ==
    /\ profile' = new_shares(total)
    /\ call' = Called("new_shares", <<total>>, Some(profile'))
    /\ UNCHANGED <<vs, fresh, ctor, lastOp, active, stack, hist, overflow_checks, bank, court, ledger>>

AddShares(amount) ==
    /\ profile' = IF add_shares(profile, amount, overflow_checks) = None THEN profile ELSE Unwrap(add_shares(profile, amount, overflow_checks))
    /\ call' = Called("add_shares", <<amount>>, add_shares(profile, amount, overflow_checks))
    /\ UNCHANGED <<vs, fresh, ctor, lastOp, active, stack, hist, overflow_checks, bank, court, ledger>>

SubtractShares(amount) ==
    /\ profile' = IF subtract_shares(profile, amount, overflow_checks) = None THEN profile ELSE Unwrap(subtract_shares(profile, amount, overflow_checks))
    /\ call' = Called("subtract_shares", <<amount>>, subtract_shares(profile, amount, overflow_checks))
    /\ UNCHANGED <<vs, fresh, ctor, lastOp, active, stack, hist, overflow_checks, bank, court, ledger>>

IncrementTimesReserved ==
    /\ profile' = IF increment_times_reserved(profile, overflow_checks) = None THEN profile ELSE Unwrap(increment_times_reserved(profile, overflow_checks))
    /\ call' = Called("increment_times_reserved", <<>>, increment_times_reserved(profile, overflow_checks))
    /\ UNCHANGED <<vs, fresh, ctor, lastOp, active, stack, hist, overflow_checks, bank, court, ledger>>

DecrementTimesReserved ==
    /\ profile' = IF decrement_times_reserved(profile, overflow_checks) = None THEN profile ELSE Unwrap(decrement_times_reserved(profile, overflow_checks))
    /\ call' = Called("decrement_times_reserved", <<>>, decrement_times_reserved(profile, overflow_checks))
    /\ UNCHANGED <<vs, fresh, ctor, lastOp, active, stack, hist, overflow_checks, bank, court, ledger>>

Lock ==
    /\ profile' = lock(profile)
    /\ call' = Called("lock", <<>>, Some(profile'))
    /\ UNCHANGED <<vs, fresh, ctor, lastOp, active, stack, hist, overflow_checks, bank, court, ledger>>

Unlock ==
    /\ profile' = unlock(profile)
    /\ call' = Called("unlock", <<>>, Some(profile'))
    /\ UNCHANGED <<vs, fresh, ctor, lastOp, active, stack, hist, overflow_checks, bank, court, ledger>>

NextShares ==
    \/ \E total \in ShareAmounts : NewShares(total)
    \/ \E amount \in ShareAmounts : AddShares(amount)
    \/ \E amount \in ShareAmounts : SubtractShares(amount)
    \/ IncrementTimesReserved
    \/ DecrementTimesReserved
    \/ Lock
    \/ Unlock

InitShares ==
    /\ InitWith("default", VoteState_default)
    /\ overflow_checks \in BOOLEAN
    /\ call = NoCall
    /\ bank = BankGenesis
    /\ court = CourtGenesis
    /\ ledger = LedgerGenesis
    /\ profile = ShareProfile_default

SpecShares == InitShares /\ [][NextShares]_vars

(***************************************************************************)
(* SpecGenesis: SimpleShareGenesis::from on raw lists, in either build     *)
(* profile.                                                                *)
(***************************************************************************)
MaxEntries == 3

\* the raw lists: up to MaxEntries pairs of two accounts, in any order and
\* with any repetition
RawGenesis ==
    UNION {[1..n -> {1, 2} \X (0..MaxShares)] : n \in 0..MaxEntries}

\* From is a pure function: a behaviour is one call of it
CallFrom(genesis) ==
    /\ call = NoCall
    /\ call' = Called("SimpleShareGenesis::from", <<genesis>>,
                      SimpleShareGenesis_from(genesis, overflow_checks))
    /\ UNCHANGED <<vs, fresh, ctor, lastOp, active, stack, hist, overflow_checks, bank, court, ledger, profile>>

NextGenesis == \E genesis \in RawGenesis : CallFrom(genesis)

SpecGenesis == InitShares /\ [][NextGenesis]_vars

(***************************************************************************)
(* SpecCli: one run of a share burn command.  Account 0 stands for a       *)
(* string that is no Ss58 address; profile is the ShareProfile of account  *)
(* 1 in the organization; a single command is far from the range of u64.   *)
(***************************************************************************)
\* the lists of AccountShare a batch command is given
AccountShareLists ==
    UNION {[1..n -> (0..2) \X (0..MaxShares)] : n \in 0..MaxEntries}

\* shares.rs:97-125  SharesBatchBurnCommand::exec
SharesBatchBurnCommand(organization, old_accounts) ==
    /\ call = NoCall
    /\ IF \E i \in DOMAIN old_accounts : old_accounts[i][1] = 0
       THEN /\ call' = Called("SharesBatchBurnCommand", <<organization, old_accounts>>,
                              [ok |-> FALSE, request |-> "none"])
            /\ profile' = profile
       ELSE /\ call' = Called("SharesBatchBurnCommand", <<organization, old_accounts>>,
                              [ok |-> TRUE, request |-> "batch_issue_shares"])
            /\ profile' = batch_issue_shares(profile, 1, old_accounts)
    /\ UNCHANGED <<vs, fresh, ctor, lastOp, active, stack, hist, overflow_checks, bank, court, ledger>>

\* shares.rs:134-158  SharesBurnCommand::exec
SharesBurnCommand(organization, burner, shares) ==
    /\ call = NoCall
    /\ IF burner = 0
       THEN /\ call' = Called("SharesBurnCommand", <<organization, burner, shares>>,
                              [ok |-> FALSE, request |-> "none"])
            /\ profile' = profile
       ELSE /\ call' = Called("SharesBurnCommand", <<organization, burner, shares>>,
                              [ok |-> TRUE, request |-> "issue_shares"])
            /\ profile' = issue_shares(profile, 1, burner, shares)
    /\ UNCHANGED <<vs, fresh, ctor, lastOp, active, stack, hist, overflow_checks, bank, court, ledger>>

NextCli ==
    \/ \E old_accounts \in AccountShareLists : SharesBatchBurnCommand(1, old_accounts)
    \/ \E burner \in 0..2, shares \in 0..MaxShares : SharesBurnCommand(1, burner, shares)

SpecCli == InitShares /\ [][NextCli]_vars

(***************************************************************************)
(* Properties                                                              *)
(***************************************************************************)
\* the vote of the last apply or revert
LastVote == Unwrap(lastOp.arg)
LastWasApply == lastOp.kind = "apply"
LastWasRevert == lastOp.kind = "revert"
LastWasVoteOp == lastOp.kind \in {"apply", "revert"}

Tallies(self) == <<self.in_favor, self.against, self.turnout>>

\* C1: every apply step, from any outcome, changes the tallies by the vote's
\* magnitude m according to its direction: InFavor adds m to in_favor and to
\* turnout and leaves against; Against adds m to against and to turnout and
\* leaves in_favor; Abstain adds m to turnout only.
C1_ApplyTallies ==
    [][LastWasApply' =>
        LET v == LastVote'
            m == v.magnitude
        IN  /\ v.direction = "InFavor" =>
                Tallies(vs') = <<vs.in_favor + m, vs.against, vs.turnout + m>>
            /\ v.direction = "Against" =>
                Tallies(vs') = <<vs.in_favor, vs.against + m, vs.turnout + m>>
            /\ v.direction = "Abstain" =>
                Tallies(vs') = <<vs.in_favor, vs.against, vs.turnout + m>>]_vars

\* C1 witness: a vote against was applied to a state that was already Approved
C1_Witness ==
    /\ LastWasApply
    /\ LastVote.direction = "Against"
    /\ lastOp.before = "Approved"
    /\ vs.against >= LastVote.magnitude

\* C2 as stated: once Approved or Rejected, no later step changes the outcome.
C2_OutcomeNeverChanges ==
    [][IsTerminal(vs.outcome) => vs'.outcome = vs.outcome]_vars

\* C2 amended: once the outcome is Approved or Rejected, no topic update changes
\* it and no apply or revert returns it to Voting or NotStarted; apply and revert
\* re-evaluate the thresholds, so the outcome changes exactly to the verdict of
\* the new tallies: to Approved only when approved() holds on them, to Rejected
\* only when approved() fails and rejected() holds on them.
C2_OutcomeFollowsTallies ==
    [][(IsTerminal(vs.outcome) /\ vs'.outcome # vs.outcome) =>
        /\ LastWasVoteOp'
        /\ \/ vs'.outcome = "Approved" /\ approved(vs')
           \/ /\ vs'.outcome = "Rejected"
              /\ ~approved(vs')
              /\ rejected(vs') = Some(TRUE)]_vars

\* C2 witness: an Approved state was turned into a Rejected one by a vote
C2_Witness ==
    /\ LastWasVoteOp
    /\ lastOp.before = "Approved"
    /\ vs.outcome = "Rejected"

\* C3: approved() is true exactly when in_favor is strictly above the passage
\* support and, if the passage threshold has a turnout requirement t, turnout is
\* strictly below t.
C3_ApprovedIff ==
    LET p == vs.passage_threshold
    IN  approved(vs) <=>
            /\ vs.in_favor > p.support_required
            /\ p.turnout_required = None \/ vs.turnout < p.turnout_required[1]

\* C3 witness: a vote left the state approved under a passage threshold that has
\* a turnout requirement
C3_Witness ==
    /\ LastWasVoteOp
    /\ vs.passage_threshold.turnout_required # None
    /\ vs.in_favor > vs.passage_threshold.support_required
    /\ vs.turnout < vs.passage_threshold.turnout_required[1]

\* C4: an apply or revert whose result has in_favor at or below the passage
\* support never makes the outcome Approved: not Approved before, not Approved
\* after.
C4_NoApprovalAtThreshold ==
    [][(/\ LastWasVoteOp'
        /\ vs'.in_favor <= vs'.passage_threshold.support_required
        /\ vs.outcome # "Approved") => vs'.outcome # "Approved"]_vars

\* C4 witness: votes in favor brought in_favor exactly to the support threshold
C4_Witness ==
    /\ LastWasApply
    /\ LastVote.direction = "InFavor"
    /\ vs.in_favor = vs.passage_threshold.support_required
    /\ lastOp.before # "Approved"

\* C5: rejected() is None without a rejection threshold; otherwise it is Some(b)
\* with b true exactly when against is strictly above the rejection support and,
\* if that threshold has a turnout requirement t, turnout is strictly below t.
C5_RejectedIs ==
    rejected(vs) =
        IF vs.rejection_threshold = None
        THEN None
        ELSE LET r == vs.rejection_threshold[1]
             IN  Some(/\ vs.against > r.support_required
                      /\ r.turnout_required = None \/ vs.turnout < r.turnout_required[1])

\* C5 witness: a vote left against above a rejection threshold that has a turnout
\* requirement, with the turnout below it
C5_Witness ==
    /\ LastWasVoteOp
    /\ vs.rejection_threshold # None
    /\ vs.rejection_threshold[1].turnout_required # None
    /\ vs.against > vs.rejection_threshold[1].support_required
    /\ vs.turnout < vs.rejection_threshold[1].turnout_required[1]

\* C6: when, after the tally update of an apply or a revert, both approved() and
\* rejected() hold on the new tallies, the resulting outcome is Approved, never
\* Rejected.
C6_ApprovedWinsOverRejected ==
    (/\ LastWasVoteOp
     /\ vs.in_favor > vs.passage_threshold.support_required
     /\ \/ vs.passage_threshold.turnout_required = None
        \/ vs.turnout < vs.passage_threshold.turnout_required[1]
     /\ vs.rejection_threshold # None
     /\ vs.against > vs.rejection_threshold[1].support_required
     /\ \/ vs.rejection_threshold[1].turnout_required = None
        \/ vs.turnout < vs.rejection_threshold[1].turnout_required[1])
        => vs.outcome = "Approved"

\* C6 witness: a vote in favor was applied to a Rejected state and left both
\* thresholds met
C6_Witness ==
    /\ LastWasApply
    /\ LastVote.direction = "InFavor"
    /\ lastOp.before = "Rejected"
    /\ approved(vs)
    /\ rejected(vs) = Some(TRUE)

\* C7: when, after the tally update of an apply or a revert, neither approved()
\* nor rejected() holds on the new tallies, the outcome of the result is the
\* outcome before the step (an Approved state whose in_favor is reverted to or
\* below the support threshold stays Approved).
C7_OutcomeKeptWhenNeither ==
    [][(/\ LastWasVoteOp'
        /\ ~approved(vs')
        /\ rejected(vs') # Some(TRUE)) => vs'.outcome = vs.outcome]_vars

\* C7 witness: an Approved state whose votes in favor were reverted to the
\* support threshold or below, and which is still Approved
C7_Witness ==
    /\ LastWasRevert
    /\ LastVote.direction = "InFavor"
    /\ lastOp.before = "Approved"
    /\ vs.in_favor <= vs.passage_threshold.support_required
    /\ rejected(vs) # Some(TRUE)
    /\ vs.outcome = "Approved"

\* C8: for every state s with outcome Voting and every vote v, revert(apply(s, v), v)
\* has the in_favor, against and turnout of s.
C8_RevertUndoesApply ==
    [][(LastWasApply' /\ vs.outcome = "Voting") =>
        Tallies(revert(vs', LastVote')) = Tallies(vs)]_vars

\* C8 witness: a vote against of magnitude 2 was applied to a state that was Voting
C8_Witness ==
    /\ LastWasApply
    /\ lastOp.before = "Voting"
    /\ LastVote.direction = "Against"
    /\ LastVote.magnitude = 2
    /\ vs.against >= 2

(***************************************************************************)
(* Properties of SpecBallots                                               *)
(***************************************************************************)
\* C9: votes v1..vn applied in order to a state built by new and then reverted in
\* the order vn..v1 give back the fresh state in every field, provided no state
\* on the way was Approved or Rejected.
C9_RoundTripRestoresFresh ==
    (/\ ctor = "new"
     /\ hist.roundTrip = "reverting"
     /\ stack = <<>>
     /\ ~hist.terminalSeen) => vs = fresh

\* C9 witness: two votes, one of them in favor, were applied and reverted in
\* reverse order without the outcome leaving Voting
C9_Witness ==
    /\ ctor = "new"
    /\ hist.roundTrip = "reverting"
    /\ stack = <<>>
    /\ hist.applied >= 2
    /\ ~hist.terminalSeen
    /\ LastWasRevert
    /\ LastVote.direction = "InFavor"

RECURSIVE SumMagnitudes(_, _)
\* the magnitudes of the votes of `bag` that are in the set S, copies counted
SumMagnitudes(S, bag) ==
    IF S = {}
    THEN 0
    ELSE LET v == CHOOSE x \in S : TRUE
         IN  v.magnitude * CopiesIn(v, bag) + SumMagnitudes(S \ {v}, bag)

\* the magnitude of the active votes whose direction is in `directions`
ActiveMagnitude(directions) ==
    SumMagnitudes({v \in BagToSet(active) : v.direction \in directions}, active)

\* C10: after any interleaving of applies and of reverts of votes that are
\* active, in_favor is the sum of the active InFavor magnitudes, against that of
\* the active Against ones, and turnout that of all active InFavor, Against and
\* Abstain votes.
C10_TalliesAreActiveSums ==
    /\ vs.in_favor = ActiveMagnitude({"InFavor"})
    /\ vs.against = ActiveMagnitude({"Against"})
    /\ vs.turnout = ActiveMagnitude({"InFavor", "Against", "Abstain"})

\* C10 witness: a vote against was reverted while an abstention cast before it
\* stays active
C10_Witness ==
    /\ LastWasRevert
    /\ LastVote.direction = "Against"
    /\ ActiveMagnitude({"Abstain"}) > 0
    /\ vs.turnout = ActiveMagnitude({"Abstain"})

\* C11 as stated: in every state reachable by apply, revert of any vote and the
\* two topic updates, turnout >= in_favor + against.
C11_TurnoutCoversVotes == vs.turnout >= vs.in_favor + vs.against

\* C11 amended: in every state reachable from a fresh VoteState by apply, by
\* revert of a vote that was applied earlier and not yet reverted, and by the two
\* topic updates, turnout >= in_favor + against, the difference being the
\* magnitude of the active abstentions.
C11_TurnoutCoversActiveVotes ==
    hist.strays = 0 =>
        /\ vs.turnout >= vs.in_favor + vs.against
        /\ vs.turnout - (vs.in_favor + vs.against) = ActiveMagnitude({"Abstain"})

\* C11 witness: a vote in favor was reverted while an abstention and nothing else
\* stays active
C11_Witness ==
    /\ hist.strays = 0
    /\ LastWasRevert
    /\ LastVote.direction = "InFavor"
    /\ ActiveMagnitude({"Abstain"}) > 0
    /\ vs.in_favor + vs.against = 0

(***************************************************************************)
(* Properties of SpecCalls                                                 *)
(***************************************************************************)
\* C12: ThresholdConfig::new(s, Some(t)) is None if and only if s >= t;
\* ThresholdConfig::new(s, None) is always a config with support s and no turnout
\* requirement; so every config new returns with a turnout requirement t has
\* support_required < t.
C12_ThresholdConfigNew ==
    call.fn = "ThresholdConfig::new" =>
        LET s == call.args[1]
            t == call.args[2]
        IN  /\ t # None => (call.result = None <=> s >= t[1])
            /\ t = None =>
                call.result = Some([support_required |-> s, turnout_required |-> None])
            /\ (call.result # None /\ call.result[1].turnout_required # None) =>
                /\ call.result[1].support_required = s
                /\ call.result[1].turnout_required = t
                /\ call.result[1].support_required < call.result[1].turnout_required[1]

\* C12 witness: new was called with a support equal to the turnout requirement
\* and returned None
C12_Witness ==
    /\ call.fn = "ThresholdConfig::new"
    /\ call.args[2] # None
    /\ call.args[1] = call.args[2][1]
    /\ call.result = None

(***************************************************************************)
(* Properties of Spec: NoVote ballots                                      *)
(***************************************************************************)
NoVotes == {vote \in Votes : vote.direction = "NoVote"}

\* C13: for every VoteState reachable from new or new_unanimous_consent by
\* apply, revert and the two topic updates, apply of a NoVote vote of any
\* magnitude returns a state equal to the input in every field, the outcome
\* included, and so does revert of a NoVote vote.
C13_NoVoteIsIdentity ==
    ctor \in {"new", "new_unanimous_consent"} =>
        \A vote \in NoVotes :
            /\ apply(vs, vote) = vs
            /\ revert(vs, vote) = vs

\* C13 witness: a NoVote ballot was applied to (or reverted from) a state built
\* by new whose outcome its tallies no longer justify: Approved, with the
\* tallies cleared
C13_Witness ==
    /\ ctor = "new"
    /\ LastWasVoteOp
    /\ LastVote.direction = "NoVote"
    /\ lastOp.before = "Approved"
    /\ vs.outcome = "Approved"
    /\ ~approved(vs)
    /\ Tallies(vs) = <<0, 0, 0>>

(***************************************************************************)
(* Properties of SpecOverflow                                              *)
(***************************************************************************)
\* C14: apply never makes in_favor, against or turnout smaller than before,
\* also when tally + magnitude exceeds the largest Signal value: the sum
\* saturates or the operation fails, it does not wrap.
C14_ApplyNeverShrinksTallies ==
    [][lastOp'.kind = "apply" =>
        /\ vs'.in_favor >= vs.in_favor
        /\ vs'.against >= vs.against
        /\ vs'.turnout >= vs.turnout]_vars

\* C15: revert of a vote whose magnitude is greater than the counter it is
\* subtracted from never yields a wrapped-around tally: the subtraction
\* saturates at zero or the operation fails, and no tally is larger after the
\* revert than before it.
C15_RevertNeverGrowsTallies ==
    [][lastOp'.kind = "revert" =>
        /\ vs'.in_favor <= vs.in_favor
        /\ vs'.against <= vs.against
        /\ vs'.turnout <= vs.turnout]_vars

(***************************************************************************)
(* Properties of SpecCalls: set_new_view and the constructors              *)
(***************************************************************************)
\* C16: Vote::set_new_view(d, j) returns None when d equals the vote's current
\* direction, whatever j is, and otherwise a vote with direction d,
\* justification j and the magnitude of the original; the original vote (the
\* receiver, borrowed immutably) is not modified.
C16_SetNewView ==
    call.fn = "Vote::set_new_view" =>
        LET self == call.args[1]
            d == call.args[2]
            j == call.args[3]
        IN  /\ self \in Votes
            /\ d = self.direction => call.result = None
            /\ d # self.direction =>
                call.result = Some([magnitude |-> self.magnitude,
                                    direction |-> d,
                                    justification |-> j])

\* C16 witness: set_new_view was called with the vote's own direction and a
\* justification that differs from the vote's, and returned None
C16_Witness ==
    /\ call.fn = "Vote::set_new_view"
    /\ call.args[2] = call.args[1].direction
    /\ call.args[3] # call.args[1].justification
    /\ call.args[3] # None
    /\ call.result = None

Constructors == {"VoteState::default", "VoteState::new", "VoteState::new_unanimous_consent"}

\* C17: VoteState::new and VoteState::new_unanimous_consent return a state with
\* outcome Voting and in_favor = against = turnout = 0 that carries the supplied
\* topic, all_possible_turnout, initialized and expires (new also the supplied
\* thresholds); new_unanimous_consent sets the passage threshold to
\* support_required = all_possible_turnout with no turnout requirement and no
\* rejection threshold; of the constructors only default() returns NotStarted.
C17_Constructors ==
    /\ call.fn = "VoteState::new" =>
        call.result = [topic |-> call.args[1],
                       in_favor |-> 0,
                       against |-> 0,
                       turnout |-> 0,
                       all_possible_turnout |-> call.args[2],
                       passage_threshold |-> call.args[3],
                       rejection_threshold |-> call.args[4],
                       initialized |-> call.args[5],
                       expires |-> call.args[6],
                       outcome |-> "Voting"]
    /\ call.fn = "VoteState::new_unanimous_consent" =>
        call.result = [topic |-> call.args[1],
                       in_favor |-> 0,
                       against |-> 0,
                       turnout |-> 0,
                       all_possible_turnout |-> call.args[2],
                       passage_threshold |-> [support_required |-> call.args[2],
                                              turnout_required |-> None],
                       rejection_threshold |-> None,
                       initialized |-> call.args[3],
                       expires |-> call.args[4],
                       outcome |-> "Voting"]
    /\ call.fn \in Constructors =>
        (call.result.outcome = "NotStarted" <=> call.fn = "VoteState::default")

\* C17 witness: new_unanimous_consent was called with a topic, an expiry and a
\* positive all_possible_turnout
C17_Witness ==
    /\ call.fn = "VoteState::new_unanimous_consent"
    /\ call.args[1] # None
    /\ call.args[2] > 0
    /\ call.args[4] # None
    /\ call.result.outcome = "Voting"

(***************************************************************************)
(* Properties of SpecBallots: the topic updates                            *)
(***************************************************************************)
\* C18: update_topic_and_clear_state(t) returns a state with in_favor = against
\* = turnout = 0 and topic = Some(t) and leaves all_possible_turnout, both
\* thresholds, initialized, expires and the outcome as they were (an Approved
\* or Rejected state stays so with zero tallies).
C18_ClearStateFrame ==
    [][lastOp'.kind = "update_topic_and_clear_state" =>
        /\ Tallies(vs') = <<0, 0, 0>>
        /\ vs'.topic = lastOp'.arg
        /\ vs'.all_possible_turnout = vs.all_possible_turnout
        /\ vs'.passage_threshold = vs.passage_threshold
        /\ vs'.rejection_threshold = vs.rejection_threshold
        /\ vs'.initialized = vs.initialized
        /\ vs'.expires = vs.expires
        /\ vs'.outcome = vs.outcome]_vars

\* C18 witness: a Rejected state with votes counted was cleared and given a new
\* topic; it is still Rejected and its tallies are zero
C18_Witness ==
    /\ lastOp.kind = "update_topic_and_clear_state"
    /\ lastOp.before = "Rejected"
    /\ hist.terminalSeen
    /\ vs.outcome = "Rejected"
    /\ Tallies(vs) = <<0, 0, 0>>
    /\ vs.topic = lastOp.arg
    /\ vs.topic # fresh.topic

\* C19: update_topic_without_clearing_state(t) changes only the topic, to
\* Some(t): in_favor, against, turnout, the thresholds, all_possible_turnout,
\* initialized, expires and the outcome are unchanged.
C19_RenameFrame ==
    [][lastOp'.kind = "update_topic_without_clearing_state" =>
        /\ vs'.topic = lastOp'.arg
        /\ Tallies(vs') = Tallies(vs)
        /\ vs'.all_possible_turnout = vs.all_possible_turnout
        /\ vs'.passage_threshold = vs.passage_threshold
        /\ vs'.rejection_threshold = vs.rejection_threshold
        /\ vs'.initialized = vs.initialized
        /\ vs'.expires = vs.expires
        /\ vs'.outcome = vs.outcome]_vars

\* C19 witness: a state with votes counted and an expiry was given a new topic
\* and kept its tallies
C19_Witness ==
    /\ lastOp.kind = "update_topic_without_clearing_state"
    /\ vs.topic = lastOp.arg
    /\ vs.topic # fresh.topic
    /\ vs.in_favor > 0
    /\ vs.turnout > vs.in_favor
    /\ vs.expires # None

(***************************************************************************)
(* Properties of SpecBank                                                  *)
(***************************************************************************)
\* C20: for a spend proposal whose vote outcome is Approved,
\* poll_spend_proposal transfers the proposed amount to the recipient exactly
\* once over any sequence of polls: the first poll credits the recipient by
\* exactly the amount and closes the proposal, and every later poll of that
\* proposal fails with a state error and transfers nothing.
C20_ApprovedSpendExecutedOnce ==
    [][bank'.called = "poll_spend_proposal" =>
        /\ (bank.proposal.state = "Voting" /\ vs.outcome = "Approved") =>
            /\ bank'.result = "Ok"
            /\ bank'.free[bank.proposal.dest] =
                    bank.free[bank.proposal.dest] + bank.proposal.amount
            /\ bank'.funds = bank.funds - bank.proposal.amount
            /\ IsClosed(bank'.proposal)
        /\ IsClosed(bank.proposal) =>
            /\ bank'.result = "StateError"
            /\ bank'.free = bank.free
            /\ bank'.funds = bank.funds
            /\ bank'.proposal = bank.proposal
        /\ bank'.transfers <= 1]_vars

\* C20 witness: the approved proposal was executed by a poll, the recipient
\* holds the amount once, and the last call, another poll, failed with a state
\* error
C20_Witness ==
    /\ bank.called = "poll_spend_proposal"
    /\ bank.result = "StateError"
    /\ bank.proposal.state = "ApprovedAndExecuted"
    /\ vs.outcome = "Approved"
    /\ bank.transfers = 1
    /\ bank.free[bank.proposal.dest] =
            GenesisBalances[bank.proposal.dest] + bank.proposal.amount

(***************************************************************************)
(* Properties of SpecGov and SpecBank: polls, sudo approval and errors     *)
(***************************************************************************)
BankPolled == bank'.called = "poll_spend_proposal"
CourtPolled == court'.called = "poll_dispute_to_execute_outcome"
Inconclusive == "VoteOutcomeInconclusiveSoPollCannotExecuteOutcome"

\* C21: a poll of a spend proposal or of a dispute whose vote outcome is still
\* Voting fails with the inconclusive error
\* (VoteOutcomeInconclusiveSoPollCannotExecuteOutcome for the court), executes
\* no effect and leaves the stored state unchanged; a poll after the vote
\* reached Approved succeeds.
C21_InconclusivePoll ==
    [][/\ (BankPolled /\ bank.proposal.state = "Voting" /\ vs.outcome = "Voting") =>
            /\ bank'.result = "Inconclusive"
            /\ BankStored(bank') = BankStored(bank)
            /\ vs' = vs
       /\ (CourtPolled /\ court.dispute.state = "DisputeRaisedAndVoteDispatched"
                       /\ court.vote.outcome = "Voting") =>
            /\ court'.result = Inconclusive
            /\ CourtStored(court') = CourtStored(court)
       /\ (BankPolled /\ bank.proposal.state = "Voting" /\ vs.outcome = "Approved") =>
            bank'.result = "Ok"
       /\ (CourtPolled /\ court.dispute.state = "DisputeRaisedAndVoteDispatched"
                       /\ court.vote.outcome = "Approved") =>
            court'.result = "Ok"]_vars

\* C21 witness: a poll of the dispute found its vote undecided, and the last
\* call, a poll after the vote was approved, succeeded and paid the locked
\* funds
C21_Witness ==
    /\ court.called = "poll_dispute_to_execute_outcome"
    /\ court.result = "Ok"
    /\ court.inconclusive
    /\ court.vote.outcome = "Approved"
    /\ court.dispute.state = "DisputeRaisedAndAccepted"
    /\ court.free[court.dispute.raiser] =
            CourtBalances[court.dispute.raiser] + court.dispute.amount

\* C22: a dispute can be polled only after it was raised:
\* poll_dispute_to_execute_outcome on a dispute that is registered and not yet
\* raised fails with ActiveDisputeCannotBePolledFromCurrentState and changes
\* nothing; raise_dispute_to_trigger_vote succeeds only for an existing dispute
\* and the signer named at registration, and any other signer of an existing
\* dispute gets SignerNotAuthorizedToRaiseThisDispute.
C22_PollOnlyAfterRaise ==
    [][/\ (CourtPolled /\ court.dispute.state = "DisputeNotRaised") =>
            /\ court'.result = "ActiveDisputeCannotBePolledFromCurrentState"
            /\ CourtStored(court') = CourtStored(court)
       /\ (CourtPolled /\ court'.result = "Ok") =>
            court.dispute.state = "DisputeRaisedAndVoteDispatched"
       /\ court'.called = "raise_dispute_to_trigger_vote" =>
            /\ court'.result = "Ok" =>
                /\ court.dispute.state = "DisputeNotRaised"
                /\ court'.args[1] = court.dispute.raiser
                /\ court'.dispute.state = "DisputeRaisedAndVoteDispatched"
            /\ (court.dispute.state = "DisputeNotRaised"
                    /\ court'.args[1] = court.dispute.raiser) =>
                court'.result = "Ok"
            /\ (court.dispute.state # "None" /\ court'.args[1] # court.dispute.raiser) =>
                /\ court'.result = "SignerNotAuthorizedToRaiseThisDispute"
                /\ CourtStored(court') = CourtStored(court)]_vars

\* C22 witness: the dispute is registered and not raised, and the last call, a
\* poll of it, failed with ActiveDisputeCannotBePolledFromCurrentState
C22_Witness ==
    /\ court.called = "poll_dispute_to_execute_outcome"
    /\ court.result = "ActiveDisputeCannotBePolledFromCurrentState"
    /\ court.dispute.state = "DisputeNotRaised"
    /\ court.reserved = court.dispute.amount

\* C23: sudo_approve_spend_proposal on an open spend proposal transfers the
\* proposed amount to the recipient without any vote having been triggered or
\* cast for it, and at most once per proposal: the proposal is closed
\* afterwards, so neither a second sudo approval nor a poll executes the
\* transfer again.
C23_SudoApprovesOnce ==
    [][/\ (bank'.called = "sudo_approve_spend_proposal"
                /\ bank.proposal.state \in {"WaitingForApproval", "Voting"}) =>
            /\ bank'.result = "Ok"
            /\ bank'.free[bank.proposal.dest] =
                    bank.free[bank.proposal.dest] + bank.proposal.amount
            /\ bank'.funds = bank.funds - bank.proposal.amount
            /\ IsClosed(bank'.proposal)
            /\ vs' = vs
            /\ active' = active
       /\ (bank'.called \in {"sudo_approve_spend_proposal", "poll_spend_proposal"}
                /\ IsClosed(bank.proposal)) =>
            /\ bank'.result # "Ok"
            /\ BankStored(bank') = BankStored(bank)
       /\ bank'.transfers <= 1]_vars

\* C23 witness: the proposal was approved by sudo before any vote on it was
\* triggered or cast, and the recipient holds the amount once
C23_Witness ==
    /\ bank.called = "sudo_approve_spend_proposal"
    /\ bank.result = "Ok"
    /\ ctor = "default"
    /\ vs = VoteState_default
    /\ active = EmptyBag
    /\ bank.transfers = 1
    /\ bank.free[bank.proposal.dest] =
            GenesisBalances[bank.proposal.dest] + bank.proposal.amount

\* C24: every bank or court call that returns an error leaves all persisted
\* state unchanged: balances, counters, proposals, disputes and vote states.
C24_ErrorsChangeNothing ==
    [][/\ bank'.result # "Ok" =>
            /\ BankStored(bank') = BankStored(bank)
            /\ vs' = vs
       /\ court'.result # "Ok" => CourtStored(court') = CourtStored(court)]_vars

\* C24 witness: the registration of a dispute above the locker's balance failed
\* with InsufficientBalance, and nothing is locked or registered
C24_Witness ==
    /\ court.called = "register_dispute_type_with_resolution_path"
    /\ court.result = "InsufficientBalance"
    /\ court.args[2] > CourtBalances[court.args[1]]
    /\ court.dispute = NoDispute
    /\ court.free = CourtBalances
    /\ court.reserved = 0

\* the donation of the last call, and the group it went to
Donated(l) == l.called \in {"make_prop_donation", "make_equal_donation"}
DonatedGroup(l) == Unwrap(get_group(l.args.org))

RECURSIVE SeqSum(_)
SeqSum(seq) == IF seq = <<>> THEN 0 ELSE Head(seq) + SeqSum(Tail(seq))

\* the payments floor(A * member_shares / org_total_issuance) of a weighted
\* donation of A, in the order of the group
ExactShares(org, A) ==
    [i \in DOMAIN Groups[org] |->
        (A * Members[org][Groups[org][i]]) \div TotalIssuance[org]]

\* the payments of a successful donation: to each member of the group in
\* order, then the rest of amt to the remainder recipient
PaysOut(l, dues) ==
    /\ Len(l.issued) = Len(dues) + 1
    /\ \A i \in DOMAIN dues : l.issued[i] = <<DonatedGroup(l)[i], dues[i]>>
    /\ l.issued[Len(dues) + 1] = <<l.args.remainder_recipient, l.args.amt - SeqSum(dues)>>

\* C25: a successful weighted donation of A pays every member exactly
\* floor(A * member_shares / org_total_issuance), and A minus the sum of those
\* payments to the remainder recipient.
C25_WeightedPaysFloorOfShare ==
    (ledger.called = "make_prop_donation" /\ ledger.result = "Ok")
        => PaysOut(ledger, ExactShares(ledger.args.org, ledger.args.amt))

\* C26: a successful equal donation of A to n members pays every member
\* exactly floor(A / n), and A - n * floor(A / n) to the remainder recipient.
C26_EqualPaysFloorOfNth ==
    (ledger.called = "make_equal_donation" /\ ledger.result = "Ok")
        => LET n == Len(DonatedGroup(ledger))
           IN  PaysOut(ledger, [i \in 1..n |-> ledger.args.amt \div n])

\* the errors of a donation raised before the first transfer
EarlyErrors == {"NotEnoughFundsInFreeToMakeTransfer", "CannotDonateToOrgThatDNE"}

\* some member of the group of org has no ownership record
LacksOwnership(org) ==
    /\ org \in DOMAIN Groups
    /\ \E i \in DOMAIN Groups[org] : members(org, Groups[org][i]) = None

\* C27: a weighted donation to a group in which some member has no ownership
\* record fails with AccountHasNoOwnershipInOrg, and a weighted donation that
\* fails there or at a transfer inside the loop leaves every balance, the
\* sender's included, as it was before the call.
C27_NoPartialDistribution ==
    [][ledger'.called = "make_prop_donation" =>
            /\ (/\ LacksOwnership(ledger'.args.org)
                /\ ledger'.args.amt <= ledger.free[ledger'.args.sender])
                    => ledger'.result = "AccountHasNoOwnershipInOrg"
            /\ (/\ ledger'.result \notin EarlyErrors \cup {"Ok"}
                /\ Len(ledger'.issued) <= Len(DonatedGroup(ledger')))
                    => ledger'.free = ledger.free]_vars

\* C28: a donation of more than the sender's free balance fails with
\* NotEnoughFundsInFreeToMakeTransfer, and a donation the balance covers to an
\* organization that does not exist fails with CannotDonateToOrgThatDNE; in
\* both cases no transfer is issued, no event is deposited and no balance moves.
C28_ChecksBeforeTransfers ==
    [][Donated(ledger') =>
        LET a == ledger'.args
            refused(error) ==
                /\ ledger'.result = error
                /\ ledger'.issued = <<>>
                /\ ledger'.event = None
                /\ ledger'.free = ledger.free
        IN  /\ a.amt > ledger.free[a.sender]
                => refused("NotEnoughFundsInFreeToMakeTransfer")
            /\ (a.amt <= ledger.free[a.sender] /\ get_group(a.org) = None)
                => refused("CannotDonateToOrgThatDNE")]_vars

\* C28 witness: the first donation asked for more than the sender owns and
\* was refused before any transfer
C28_Witness ==
    /\ Donated(ledger)
    /\ ledger.donations = 1
    /\ ledger.args.amt > DonateBalances[ledger.args.sender]
    /\ ledger.result = "NotEnoughFundsInFreeToMakeTransfer"
    /\ ledger.issued = <<>>
    /\ ledger.event = None
    /\ ledger.free = DonateBalances

\* what the transfers of a call paid to acc, the sender's payments to itself
\* included
RECURSIVE PaidTo(_, _)
PaidTo(issued, acc) ==
    IF issued = <<>> THEN 0
    ELSE (IF Head(issued)[1] = acc THEN Head(issued)[2] ELSE 0) + PaidTo(Tail(issued), acc)

\* a successful donation hands out amt, no more and no less: the payments to
\* the members and the remainder sum to amt, and so does the returned pair
HandsOutAmt(l) ==
    /\ SeqSum([i \in DOMAIN l.issued |-> l.issued[i][2]]) = l.args.amt
    /\ Unwrap(l.value)[1] + Unwrap(l.value)[2] = l.args.amt
    /\ Unwrap(l.value)[2] = l.issued[Len(l.issued)][2]
    /\ Unwrap(l.value)[2] >= 0

C30_ReserveRoundTrip ==
    LET incremented == increment_times_reserved(profile, overflow_checks)
    IN  /\ incremented # None
        /\ decrement_times_reserved(Unwrap(incremented), overflow_checks) = Some(profile)

\* below the largest u32 the round trip returns the profile in both builds
ReserveRoundTripBelowMax ==
    profile.times_reserved < MaxReserved => C30_ReserveRoundTrip

\* the last call built a SimpleShareGenesis from a raw list
Built == call.fn = "SimpleShareGenesis::from" /\ call.result # None

\* C31: every SimpleShareGenesis that From builds from a raw list satisfies
\* verify_shape: its total is the sum of the shares of the entries it keeps.
C31_BuiltGenesisHasShape ==
    Built =>
        /\ verify_shape(Unwrap(call.result), overflow_checks) = Some(TRUE)
        /\ Some(Unwrap(call.result).total)
                = sum_shares(0, Unwrap(call.result).account_ownership, overflow_checks)

\* C31 witness: a raw list with a repeated entry was built, the repetition was
\* dropped and the total counts the entry once
C31_Witness ==
    /\ Built
    /\ Len(Unwrap(call.result).account_ownership) < Len(call.args[1])
    /\ Unwrap(call.result).total > 0
    /\ verify_shape(Unwrap(call.result), overflow_checks) = Some(TRUE)

\* C32: in a SimpleShareGenesis built from a raw list, no two adjacent entries
\* of account_ownership have the same account, whatever their shares.
C32_NoAdjacentDuplicateAccounts ==
    Built =>
        LET kept == Unwrap(call.result).account_ownership
        IN  \A i \in 1..(Len(kept) - 1) : kept[i][1] # kept[i + 1][1]

\* the directions that count towards the turnout
CountedViews == {"InFavor", "Against", "Abstain"}

\* the state after the member of ballot old changed it to direction d2:
\* revert(old), then apply(old.set_new_view(d2, _))
ChangedVote(state, old, d2) == apply(revert(state, old), Unwrap(set_new_view(old, d2, None)))

\* C33: after a ballot old was applied, changing it to another direction d2 by
\* revert(old) and apply(old.set_new_view(d2, _)) gives the tallies the state
\* would have had if d2 had been cast instead of old, and the turnout of the
\* state with old when both directions are among InFavor, Against, Abstain.
C33_ChangedVoteAsIfCastFirst ==
    [][lastOp'.kind = "apply" =>
        \A d2 \in VoterView \ {LastVote'.direction} :
            /\ Tallies(ChangedVote(vs', LastVote', d2))
                    = Tallies(apply(vs, Unwrap(set_new_view(LastVote', d2, None))))
            /\ (LastVote'.direction \in CountedViews /\ d2 \in CountedViews)
                    => ChangedVote(vs', LastVote', d2).turnout = vs'.turnout]_vars

\* C33 witness: a ballot in favor was applied, and changing it to an
\* abstention takes its magnitude off in_favor and keeps the turnout
C33_Witness ==
    /\ LastWasApply
    /\ LastVote.direction = "InFavor"
    /\ LastVote.magnitude > 0
    /\ vs.in_favor >= LastVote.magnitude
    /\ ChangedVote(vs, LastVote, "Abstain").in_favor = vs.in_favor - LastVote.magnitude
    /\ ChangedVote(vs, LastVote, "Abstain").turnout = vs.turnout
    /\ ChangedVote(vs, LastVote, "Abstain").against = vs.against

\* C34: no apply, revert or topic update changes an outcome to Voting or to
\* NotStarted: a state that shows Voting or NotStarted after an operation
\* showed the same outcome before it.
C34_OutcomeNeverGoesBack ==
    (lastOp.kind # "none" /\ vs.outcome \in {"Voting", "NotStarted"})
        => lastOp.before = vs.outcome

\* C34 witness: the votes in favor of an Approved state were reverted down to
\* no vote at all, below every threshold, and the state does not show Voting
C34_Witness ==
    /\ LastWasRevert
    /\ lastOp.before = "Approved"
    /\ Tallies(vs) = <<0, 0, 0>>
    /\ ~approved(vs)
    /\ vs.outcome = "Approved"

\* C35: a VoteState with no rejection threshold never has outcome Rejected,
\* whatever votes were applied and reverted.
C35_NoThresholdNoRejection ==
    vs.rejection_threshold = None => vs.outcome # "Rejected"

\* C35 witness: a state created without a rejection threshold took as many
\* votes against as the tallies hold, none in favor, and is not Rejected
C35_Witness ==
    /\ ctor \in {"new", "new_unanimous_consent"}
    /\ vs.rejection_threshold = None
    /\ LastWasApply
    /\ LastVote.direction = "Against"
    /\ vs.against = MaxSignal
    /\ vs.in_favor = 0
    /\ vs.outcome = "Voting"

\* a state created by new_unanimous_consent
Unanimous == ctor = "new_unanimous_consent"

\* C36 (as stated): a state created by new_unanimous_consent(N) is never
\* Approved while in_favor <= N.
C36_NeverApprovedAtOrBelowAll ==
    Unanimous => ~(vs.outcome = "Approved" /\ vs.in_favor <= vs.all_possible_turnout)

\* C36 (amended): in a state created by new_unanimous_consent(N), approved()
\* is false while in_favor <= N, and an operation makes the outcome Approved
\* only with in_favor above N in its result (later operations keep an
\* Approved outcome, so Approved states with in_favor <= N exist).
C36_ApprovedOnlyAboveAll ==
    Unanimous =>
        /\ approved(vs) <=> vs.in_favor > vs.all_possible_turnout
        /\ (vs.outcome = "Approved" /\ lastOp.before # "Approved")
                => vs.in_favor > vs.all_possible_turnout

\* C36 witness: every possible vote of a unanimous-consent state was cast in
\* favor, in_favor equals all_possible_turnout, and the outcome is Voting
C36_Witness ==
    /\ Unanimous
    /\ LastWasApply
    /\ vs.all_possible_turnout > 0
    /\ vs.in_favor = vs.all_possible_turnout
    /\ vs.turnout = vs.all_possible_turnout
    /\ vs.outcome = "Voting"

\* C37: a share burn command that succeeds has asked the client for a burn,
\* and the account it names holds no more shares than before the command.
C37_BurnCommandsBurn ==
    (call.fn \in {"SharesBurnCommand", "SharesBatchBurnCommand"} /\ call.result.ok)
        => /\ call.result.request \in {"burn_shares", "batch_burn_shares"}
           /\ profile.total <= ShareProfile_default.total

====
